---- MODULE Spec2Model ----
(***************************************************************************)
(* Model of the preemptive-threads kernel: the Kernel facade               *)
(* (src/src/kernel.rs), the thread object and its typed references         *)
(* (src/src/thread_new/mod.rs, handle.rs), the round-robin scheduler       *)
(* (src/src/sched/rr.rs) and the AArch64 switch paths                      *)
(* (src/src/arch/aarch64.rs, aarch64_vectors.rs).                          *)
(*                                                                         *)
(* A context buffer address is represented by the id of the thread that    *)
(* owns the buffer; 0 is the null pointer / None.                          *)
(***************************************************************************)
EXTENDS Integers, Sequences, FiniteSets, TLC

\* ------------------------------------------------------------------ bounds
MaxThreads == 2
MaxCpus == 2

ThreadIds == 1..MaxThreads
CpuIds == 0..(MaxCpus - 1)
NoThread == 0
BootOwner == 0

\* a work-stealable class (Low) and a class that is never stolen (High)
Priorities == {32, 200}
Levels == {"High", "Normal", "Low", "Idle"}
\* the global allocator starts with room for one stack per thread
HeapStacks == MaxThreads
\* two execution contexts whose calls of Kernel::spawn can interleave
Callers == {"a", "b"}
\* the canary check_stack_integrity expects, 0xDEADBEEFCAFEBABE; the 64-bit
\* words of a stack are kept as symbols
Sentinel == "DEADBEEFCAFEBABE"
\* what a word of stack memory can hold: the sentinel, the value given to
\* custom_canary, or anything else
StackWords == {Sentinel, "CUSTOM", "OTHER"}
\* no thread has been built
NoBuilt == [class |-> "None", usable |-> 0, requested |-> -1,
            canary |-> "off", top |-> "OTHER", end |-> "OTHER"]
\* the size classes a direct user of the pool asks for
PoolClasses == {"Small", "Medium"}
\* no stack: the None of Option<Stack>
NoStack == [id |-> 0, class |-> "None"]
\* a caller outside StackPool::allocate and deallocate that owns the stacks
\* of held; got is what its last allocate returned
PoolIdle(held, got) ==
    [pc |-> "idle", class |-> "None", stack |-> NoStack, seen |-> {},
     held |-> held, got |-> got]
\* a caller outside Kernel::spawn; ret is what its last call returned
NotSpawning(ret) == [pc |-> "idle", p |-> 0, id |-> 0, ret |-> ret]

\* the registers the two switch paths save and load: x stands for x0-x29,
\* el and imask for PSTATE.M and PSTATE.I
ArchRegs(x, x30, sp, pc, nzcv, imask, el) ==
    [x |-> x, x30 |-> x30, sp |-> sp, pc |-> pc, nzcv |-> nzcv,
     imask |-> imask, el |-> el]
\* no context has been saved
NoFrame == [x |-> "none", x30 |-> "none", sp |-> "none", pc |-> "none",
            pstate |-> [nzcv |-> 0, I |-> FALSE, M |-> "none"]]
\* a thread is on the CPU, at EL1 with IRQs unmasked, and nothing of it has
\* been saved
ArchBoot ==
    [cpu |-> ArchRegs("a", "lr1", "sp_t", "body", 0, FALSE, "EL1h"),
     on_cpu |-> TRUE, frame |-> NoFrame,
     susp |-> ArchRegs("a", "lr1", "sp_t", "body", 0, FALSE, "EL1h"),
     saved_by |-> "none", resumed_by |-> "none"]
\* calls of LockFreeQueue::push and of try_pop made on one queue
MaxPush == 2
MaxPops == 3
\* contexts that call into one LockFreeQueue at the same time
QProcs == {"p", "q"}
\* heap nodes of the queue: node 1 is the dummy of new(), 0 is the null
\* pointer; a thread field of 0 is None
QNodes == 1 .. (MaxPush + 1)
\* a context outside push and try_pop
QIdle ==
    [pc |-> "idle", node |-> 0, head |-> 0, tail |-> 0, next |-> 0,
     thread |-> 0, seen |-> {}]
\* LockFreeQueue::new(): head and tail point to one dummy node
LockFreeQueue_new ==
    [node |-> [n \in QNodes |-> [thread |-> 0, next |-> 0]],
     head |-> 1, tail |-> 1, nalloc |-> 1, freed |-> {},
     proc |-> [k \in QProcs |-> QIdle],
     pushed |-> {}, returned |-> <<>>, pops |-> 0]

VARIABLES
    initialized,        \* Kernel.initialized
    next_thread_id,     \* Kernel.next_thread_id
    current_thread,     \* Kernel.current_thread slot (NoThread = None)
    num_cpus,           \* RoundRobinScheduler.num_cpus
    run_queues,         \* RoundRobinScheduler.run_queues[cpu][level]
    thread_count,       \* CpuRunQueue.thread_count
    runnable_threads,   \* RoundRobinScheduler.runnable_threads
    state,              \* ThreadInner.state
    priority,           \* ThreadInner.priority
    join_result,        \* ThreadInner.join_result (TRUE = Some(()))
    context,            \* ThreadInner.context (the saved register frame)
    IRQ_SAVE_CTX,       \* arch::aarch64::IRQ_SAVE_CTX
    IRQ_LOAD_CTX,       \* arch::aarch64::IRQ_LOAD_CTX
    cpu,                \* live register file of the one CPU
    daifMasked,         \* PSTATE.I of the CPU (TRUE = IRQs masked)
    joinTarget,         \* the JoinHandle captured by a thread's closure
    joinRet,            \* what join() returned to the thread ("none" before)
    sftDone,            \* history: start_first_thread has switched
    heldReady,          \* ReadyRefs held by a direct caller of the scheduler
    finishing,          \* RunningRef::finish in progress on this thread
    tryJoinSeen,        \* last value try_join returned for each thread
    order,              \* history: the queued threads in arrival order
    lastPick,           \* history: the last pick_next a caller made
    requested,          \* history: priority last passed to set_priority
    stack_pool,         \* Kernel.stack_pool: the StackPoolStats counters
    heap,               \* stacks the global allocator can still provide
    minted,             \* history: the ids next_thread_id has returned
    spawning,           \* each caller's position inside Kernel::spawn
    handle,             \* the JoinHandle of the thread is still alive
    free_stacks,        \* StackPool.free_stacks: each class's Mutex<Vec>
    pool_user,          \* each direct caller of the pool: position, stacks
    built,              \* the thread the last ThreadBuilder::spawn returned
    timer,              \* TIMER_FREQ and the generic timer's registers
    gic,                \* history: what irq_handler did on the last IRQ
    lfq,                \* one LockFreeQueue and the calls in progress on it
    slot_lock,          \* the SpinLock of Kernel::current_thread: who holds
                        \* it, and (history) the threads inside yield_now
    arch                \* the registers of the CPU and one thread's
                        \* Aarch64Context across a suspension

vars == <<initialized, next_thread_id, current_thread, num_cpus, run_queues,
          thread_count, runnable_threads, state, priority, join_result,
          context, IRQ_SAVE_CTX, IRQ_LOAD_CTX, cpu, daifMasked, joinTarget,
          joinRet, sftDone, heldReady, finishing, tryJoinSeen, order,
          lastPick, requested, stack_pool, heap, minted, spawning, handle,
          free_stacks, pool_user, built, timer, gic, lfq, slot_lock, arch>>

kernelVars == <<initialized, next_thread_id, current_thread>>
schedVars == <<run_queues, thread_count, runnable_threads>>
irqVars == <<IRQ_SAVE_CTX, IRQ_LOAD_CTX>>
histVars == <<order, lastPick, requested>>
spawnVars == <<stack_pool, heap, minted, spawning>>
poolVars == <<free_stacks, pool_user>>
\* the components beside the kernel and its scheduler
\* everything of the extensions except the slot lock
notLockVars == <<poolVars, built, timer, gic, lfq, arch>>
extVars == <<notLockVars, slot_lock>>
apiVars == <<heldReady, finishing, tryJoinSeen, histVars, extVars, spawnVars, handle>>

Created == 1..(next_thread_id - 1)

\* ------------------------------------------------------- scheduler (rr.rs)
priority_level(p) ==
    IF p = 0 THEN "Idle"
    ELSE IF p <= 63 THEN "Low"
    ELSE IF p <= 191 THEN "Normal"
    ELSE "High"

\* The scheduler's mutable state as one value.
Sched == [rq |-> run_queues, tc |-> thread_count, rt |-> runnable_threads]

RECURSIVE SelectFrom(_, _, _, _)
SelectFrom(tc, c, best, min) ==
    IF c >= num_cpus THEN best
    ELSE IF tc[c] < min THEN SelectFrom(tc, c + 1, c, tc[c])
    ELSE SelectFrom(tc, c + 1, best, min)

select_cpu(S) == SelectFrom(S.tc, 1, 0, S.tc[0])

\* enqueue with a push that inserts at the head of the queue
enqueue_front(S, t, prio) ==
    LET c == select_cpu(S)
        l == priority_level(prio)
    IN [rq |-> [S.rq EXCEPT ![c][l] = <<t>> \o @],
        tc |-> [S.tc EXCEPT ![c] = @ + 1],
        rt |-> S.rt + 1]

\* enqueue reads thread.priority() (prio); LockFreeQueue::push appends at
\* the tail.
enqueue(S, t, prio) ==
    LET c == select_cpu(S)
        l == priority_level(prio)
    IN [rq |-> [S.rq EXCEPT ![c][l] = Append(@, t)],
        tc |-> [S.tc EXCEPT ![c] = @ + 1],
        rt |-> S.rt + 1]

\* try_pop that leaves the head in the queue
PopFrom_peek(S, c, l, countGlobal) ==
    [t |-> Head(S.rq[c][l]), S |-> S]

\* LockFreeQueue::try_pop removes the head; the result pairs the thread
\* (NoThread for None) with the scheduler state after the call.
PopFrom(S, c, l, countGlobal) ==
    [t |-> Head(S.rq[c][l]),
     S |-> [rq |-> [S.rq EXCEPT ![c][l] = Tail(@)],
            tc |-> [S.tc EXCEPT ![c] = @ - 1],
            rt |-> IF countGlobal THEN S.rt - 1 ELSE S.rt]]

RECURSIVE StealFrom(_, _, _)
StealFrom(S, requesting_cpu, i) ==
    IF i >= num_cpus THEN [t |-> NoThread, S |-> S]
    ELSE LET victim_cpu == (((requesting_cpu + 1) % num_cpus) + i) % num_cpus
         IN IF victim_cpu = requesting_cpu
               THEN StealFrom(S, requesting_cpu, i + 1)
            ELSE IF S.rq[victim_cpu]["Normal"] # <<>>
               THEN PopFrom(S, victim_cpu, "Normal", FALSE)
            ELSE IF S.rq[victim_cpu]["Low"] # <<>>
               THEN PopFrom(S, victim_cpu, "Low", FALSE)
            ELSE StealFrom(S, requesting_cpu, i + 1)

try_steal_work(S, requesting_cpu) == StealFrom(S, requesting_cpu, 0)

\* pick_next that serves the low priority queue before the others
pick_next_lowFirst(S, cpu_id) ==
    IF cpu_id >= num_cpus THEN [t |-> NoThread, S |-> S]
    ELSE IF S.rq[cpu_id]["Low"] # <<>> THEN PopFrom(S, cpu_id, "Low", TRUE)
    ELSE IF S.rq[cpu_id]["High"] # <<>> THEN PopFrom(S, cpu_id, "High", TRUE)
    ELSE IF S.rq[cpu_id]["Normal"] # <<>> THEN PopFrom(S, cpu_id, "Normal", TRUE)
    ELSE IF S.rq[cpu_id]["Idle"] # <<>> THEN PopFrom(S, cpu_id, "Idle", TRUE)
    ELSE LET Stolen(r) ==
                 IF r.t # NoThread
                    THEN [t |-> r.t, S |-> [r.S EXCEPT !.rt = @ - 1]]
                    ELSE [t |-> NoThread, S |-> S]
         IN CHOOSE x \in {Stolen(r) : r \in {try_steal_work(S, cpu_id)}} : TRUE

pick_next(S, cpu_id) ==
    IF cpu_id >= num_cpus THEN [t |-> NoThread, S |-> S]
    ELSE IF S.rq[cpu_id]["High"] # <<>> THEN PopFrom(S, cpu_id, "High", TRUE)
    ELSE IF S.rq[cpu_id]["Normal"] # <<>> THEN PopFrom(S, cpu_id, "Normal", TRUE)
    ELSE IF S.rq[cpu_id]["Low"] # <<>> THEN PopFrom(S, cpu_id, "Low", TRUE)
    ELSE IF S.rq[cpu_id]["Idle"] # <<>> THEN PopFrom(S, cpu_id, "Idle", TRUE)
    ELSE LET Stolen(r) ==
                 IF r.t # NoThread
                    THEN [t |-> r.t, S |-> [r.S EXCEPT !.rt = @ - 1]]
                    ELSE [t |-> NoThread, S |-> S]
         IN CHOOSE x \in {Stolen(r) : r \in {try_steal_work(S, cpu_id)}} : TRUE

SetSched(S) ==
    /\ run_queues' = S.rq
    /\ thread_count' = S.tc
    /\ runnable_threads' = S.rt

\* ----------------------------------------------- register frames (aarch64)
\* owner: whose execution the registers belong to (SP, x0-x30);
\* pc:    where that execution is;
\* ret, prev, next: the return site and locals of a yield_now in progress;
\* pstate: what the pstate field holds: "INIT" (0x3c5, setup_initial_context),
\*         "NZCV" (flags only, written by context_switch), "SPSR" (written by
\*         the IRQ prologue from SPSR_EL1).
Frame(o, pc, ret, prev, next, ps) ==
    [owner |-> o, pc |-> pc, ret |-> ret, prev |-> prev, next |-> next,
     pstate |-> ps]

\* Thread::setup_initial_context
setup_initial_context(t) == Frame(t, "entry", "none", 0, 0, "INIT")

\* the registers without the pstate field of a saved frame
Regs(f) == [owner |-> f.owner, pc |-> f.pc, ret |-> f.ret, prev |-> f.prev,
            next |-> f.next]

CpuRegs(o, pc, ret, prev, next) ==
    [owner |-> o, pc |-> pc, ret |-> ret, prev |-> prev, next |-> next]

\* ------------------------------------------------------------------- Init
Init ==
    /\ initialized = FALSE
    /\ next_thread_id = 1
    /\ current_thread = NoThread
    /\ num_cpus \in 1..MaxCpus
    /\ run_queues = [c \in CpuIds |-> [l \in Levels |-> <<>>]]
    /\ thread_count = [c \in CpuIds |-> 0]
    /\ runnable_threads = 0
    /\ state = [t \in ThreadIds |-> "Ready"]
    /\ priority = [t \in ThreadIds |-> 0]
    /\ join_result = [t \in ThreadIds |-> FALSE]
    /\ context = [t \in ThreadIds |-> setup_initial_context(t)]
    /\ IRQ_SAVE_CTX = 0
    /\ IRQ_LOAD_CTX = 0
    /\ cpu = CpuRegs(BootOwner, "boot", "none", 0, 0)
    /\ daifMasked = TRUE
    /\ joinTarget = [t \in ThreadIds |-> NoThread]
    /\ joinRet = [t \in ThreadIds |-> "none"]
    /\ sftDone = FALSE
    /\ heldReady = {}
    /\ finishing = NoThread
    /\ tryJoinSeen = [t \in ThreadIds |-> "none"]
    /\ order = <<>>
    /\ lastPick = [t |-> NoThread, cpu |-> 0, before |-> <<>>,
                   rq |-> run_queues]
    /\ requested = [t \in ThreadIds |-> {}]
    /\ stack_pool = [allocated |-> 0, in_use |-> 0]
    /\ heap = HeapStacks
    /\ minted = <<>>
    /\ spawning = [k \in Callers |-> NotSpawning("none")]
    /\ handle = [t \in ThreadIds |-> FALSE]
    /\ free_stacks = [c \in PoolClasses |-> [list |-> <<>>, owner |-> "free"]]
    /\ pool_user = [k \in Callers |-> PoolIdle({}, NoStack)]
    /\ built = NoBuilt
    /\ timer = [freq |-> 0, now |-> 0, cval |-> 0, ctl |-> 0, ret |-> "none"]
    /\ gic = [iar |-> 0, events |-> <<>>]
    /\ lfq = LockFreeQueue_new
    /\ slot_lock = [owner |-> "free", yielding |-> {}]
    /\ arch = ArchBoot


\* ------------------------------------------------------- execution helper
Run(newCpu) == cpu' = newCpu

OnBoot(pc) == cpu.owner = BootOwner /\ cpu.pc = pc
OnThread(pc) == cpu.owner \in ThreadIds /\ cpu.pc = pc

\* ------------------------------------------------ thread_new/mod.rs: refs
\* ReadyRef::start_running
start_running(st, t) == [st EXCEPT ![t] = "Running"]

\* stop_running that leaves the state alone
stop_running_keep(st, t) == st

\* RunningRef::stop_running
stop_running(st, t) == [st EXCEPT ![t] = "Ready"]

\* RunningRef::block
block(st, t) == [st EXCEPT ![t] = "Blocked"]

\* RunningRef::prepare_preemption
prepare_preemption(st, t) == [st EXCEPT ![t] = "Ready"]

\* ------------------------------------------------------- kernel.rs: facade
\* Kernel::init
KernelInit ==
    /\ OnBoot("boot")
    /\ ~initialized
    /\ initialized' = TRUE
    /\ UNCHANGED <<next_thread_id, current_thread, num_cpus, schedVars, state,
                   priority, join_result, context, irqVars, cpu, daifMasked,
                   joinTarget, joinRet, sftDone, apiVars>>

\* DefaultArch::enable_interrupts called by the boot code before
\* start_first_thread (examples/rpi_kernel.rs).
BootEnableInterrupts ==
    /\ OnBoot("boot")
    /\ daifMasked
    /\ daifMasked' = FALSE
    /\ UNCHANGED <<kernelVars, num_cpus, schedVars, state, priority,
                   join_result, context, irqVars, cpu, joinTarget, joinRet,
                   sftDone, apiVars>>

\* StackPool::allocate without the null check of allocate_new_stack
allocate_unchecked(pool, hp) ==
    [stack |-> TRUE,
     pool |-> [allocated |-> pool.allocated + 1, in_use |-> pool.in_use + 1],
     heap |-> IF hp = 0 THEN 0 ELSE hp - 1]

\* StackPool::allocate counting the stack before the null check
allocate_count_first(pool, hp) ==
    [stack |-> hp # 0,
     pool |-> [allocated |-> pool.allocated + 1, in_use |-> pool.in_use + 1],
     heap |-> IF hp = 0 THEN 0 ELSE hp - 1]

\* StackPool::allocate(size_class). StackPool::deallocate has no caller
\* outside the pool's own tests, so the free lists stay empty and every call
\* reaches allocate_new_stack: None when the global allocator returns null,
\* else the stack, with stats.allocated and stats.in_use incremented.
allocate(pool, hp) ==
    IF hp = 0
       THEN [stack |-> FALSE, pool |-> pool, heap |-> hp]
       ELSE [stack |-> TRUE,
             pool |-> [allocated |-> pool.allocated + 1,
                       in_use |-> pool.in_use + 1],
             heap |-> hp - 1]

\* a fetch_add that stores the value it read
fetch_add_noinc(c) == [prev |-> c, next |-> c]

\* AtomicUsize::fetch_add(1, AcqRel) of Kernel::next_thread_id: one atomic
\* step that returns the previous value. The counter is 64 bits wide and
\* starts at 1; every id the guards let it reach is far from 2^64.
fetch_add(c) == [prev |-> c, next |-> c + 1]

\* Handles nobody has moved into a closure yet.
FreeHandles == {h \in Created : \A u \in Created : joinTarget[u] # h}

\* Kernel::spawn, called by the boot code or by a running thread. The
\* closure either joins the thread of a handle it captured (jt) or not (0).
Spawn(p, jt) ==
    /\ OnBoot("boot") \/ OnThread("body")
    /\ initialized
    /\ next_thread_id <= MaxThreads
    /\ jt \in FreeHandles \cup {NoThread}
    /\ LET a == allocate(stack_pool, heap)
           f == fetch_add(next_thread_id)
           t == f.prev
       IN /\ a.stack
          /\ stack_pool' = a.pool
          /\ heap' = a.heap
          /\ next_thread_id' = f.next
          /\ minted' = Append(minted, t)
          /\ state' = [state EXCEPT ![t] = "Ready"]
          /\ priority' = [priority EXCEPT ![t] = p]
          /\ join_result' = [join_result EXCEPT ![t] = FALSE]
          /\ context' = [context EXCEPT ![t] = setup_initial_context(t)]
          /\ joinTarget' = [joinTarget EXCEPT ![t] = jt]
          /\ handle' = [handle EXCEPT ![t] = TRUE]
          /\ SetSched(enqueue(Sched, t, p))
    /\ UNCHANGED <<initialized, current_thread, num_cpus, irqVars, cpu,
                   daifMasked, joinRet, sftDone, heldReady, finishing,
                   tryJoinSeen, histVars, extVars, spawning>>

\* the decision without the enqueue of the thread taken from the slot
Reschedule_drop ==
    LET c == current_thread
        st1 == stop_running(state, c)
        Decision(r) ==
            [prev |-> c,
             next |-> r.t,
             S |-> r.S,
             st |-> IF r.t # NoThread THEN start_running(st1, r.t) ELSE st1]
    IN CHOOSE d \in {Decision(r) : r \in {pick_next(Sched, 0)}} : TRUE

\* The scheduling decision shared by yield_now and handle_irq_preemption
\* when the slot holds a thread: take it, stop_running, enqueue, pick_next(0)
\* and, when a thread was picked, start_running and publish it in the slot.
\* The result is the picked thread, the scheduler and the thread states.
Reschedule ==
    LET c == current_thread
        st1 == stop_running(state, c)
        S1 == enqueue(Sched, c, priority[c])
        Decision(r) ==
            [prev |-> c,
             next |-> r.t,
             S |-> r.S,
             st |-> IF r.t # NoThread THEN start_running(st1, r.t) ELSE st1]
    IN CHOOSE d \in {Decision(r) : r \in {pick_next(S1, 0)}} : TRUE

\* Kernel::yield_now up to (not including) the context switch. Once the
\* kernel is initialized, IRQs are masked for the decision and unmasked
\* again on every path before the function switches or returns. ret is the
\* call site the thread returns to.
yield_now(ret) ==
    IF ~initialized
       THEN /\ Run([cpu EXCEPT !.pc = ret])
            /\ UNCHANGED <<current_thread, schedVars, state, daifMasked>>
    ELSE IF current_thread = NoThread
       THEN /\ Run([cpu EXCEPT !.pc = ret])
            /\ daifMasked' = FALSE
            /\ UNCHANGED <<current_thread, schedVars, state>>
    ELSE \E d \in {Reschedule} :
            /\ SetSched(d.S)
            /\ state' = d.st
            /\ current_thread' = d.next
            /\ daifMasked' = FALSE
            /\ IF d.next # NoThread
                  THEN Run(CpuRegs(cpu.owner, "yield_cs", ret, d.prev,
                                   d.next))
                  ELSE Run([cpu EXCEPT !.pc = ret])

\* A thread body calls yield_now.
YieldNow ==
    /\ OnThread("body")
    /\ yield_now("body")
    /\ UNCHANGED <<initialized, next_thread_id, num_cpus, priority,
                   join_result, context, irqVars, joinTarget, joinRet,
                   sftDone, apiVars>>

\* Aarch64Arch::context_switch(prev, next): save the live registers into
\* *prev with pc = the label after the switch (execution then returns to the
\* call site ret) and pstate = NZCV only, then load *next and branch to its
\* pc. PSTATE.I is neither saved nor restored.
SavedBySwitch == Frame(cpu.owner, cpu.ret, "none", 0, 0, "NZCV")

context_switch(ctx, prev, next) ==
    LET saved == [ctx EXCEPT ![prev] = SavedBySwitch]
    IN [ctx |-> saved, cpu |-> Regs(saved[next])]

\* yield_now issues the switch (kernel.rs:266-274).
YieldSwitch ==
    /\ cpu.pc = "yield_cs"
    /\ LET r == context_switch(context, cpu.prev, cpu.next)
       IN /\ context' = r.ctx
          /\ Run(r.cpu)
    /\ UNCHANGED <<kernelVars, num_cpus, schedVars, state, priority,
                   join_result, irqVars, daifMasked, joinTarget, joinRet,
                   sftDone, apiVars>>


\* Kernel::start_first_thread, first part (kernel.rs:289-305): lock the slot,
\* return if it is occupied, pick_next(0), start_running, publish, unlock.
\* IRQs are left as the caller had them.
StartFirstPick ==
    /\ OnBoot("boot")
    /\ initialized
    /\ \E r \in {pick_next(Sched, 0)} :
          IF current_thread # NoThread \/ r.t = NoThread
             THEN /\ Run([cpu EXCEPT !.pc = "boot_done"])
                  /\ UNCHANGED <<current_thread, schedVars, state>>
             ELSE /\ SetSched(r.S)
                  /\ state' = start_running(state, r.t)
                  /\ current_thread' = r.t
                  /\ Run([cpu EXCEPT !.pc = "sft_set", !.next = r.t])
    /\ UNCHANGED <<initialized, next_thread_id, num_cpus, priority,
                   join_result, context, irqVars, daifMasked, joinTarget,
                   joinRet, sftDone, apiVars>>

\* arch::aarch64::set_current_irq_context
set_current_irq_context(ctx) ==
    /\ IRQ_SAVE_CTX' = ctx
    /\ IRQ_LOAD_CTX' = ctx

\* start_first_thread, kernel.rs:307-313
StartFirstSetIrq ==
    /\ OnBoot("sft_set")
    /\ set_current_irq_context(cpu.next)
    /\ Run([cpu EXCEPT !.pc = "sft_cs"])
    /\ UNCHANGED <<kernelVars, num_cpus, schedVars, state, priority,
                   join_result, context, daifMasked, joinTarget, joinRet,
                   sftDone, apiVars>>

\* start_first_thread, kernel.rs:315-325: context_switch(dummy, next_ctx);
\* the registers saved into the dummy context are discarded.
StartFirstSwitch ==
    /\ OnBoot("sft_cs")
    /\ Run(Regs(context[cpu.next]))
    /\ sftDone' = TRUE
    /\ UNCHANGED <<kernelVars, num_cpus, schedVars, state, priority,
                   join_result, context, irqVars, daifMasked, joinTarget,
                   joinRet, apiVars>>

\* ------------------------------------------------ aarch64_vectors.rs: IRQ
\* irq_el1h prologue: if IRQ_SAVE_CTX is non-null, store the interrupted
\* registers, the pre-stash SP, ELR and SPSR into the buffer it points to.
IrqPrologue(ctx) ==
    IF IRQ_SAVE_CTX = 0 THEN ctx
    ELSE [ctx EXCEPT ![IRQ_SAVE_CTX] =
              Frame(cpu.owner, cpu.pc, cpu.ret, cpu.prev, cpu.next, "SPSR")]

\* Kernel::handle_irq_preemption as a function of the state it reads; the
\* try_lock never fails here because the slot lock is only ever held while
\* IRQs are masked or inside one indivisible step of start_first_thread.
handle_irq_preemption ==
    IF ~initialized \/ current_thread = NoThread
       THEN [S |-> Sched, st |-> state, cur |-> current_thread,
             save |-> IRQ_SAVE_CTX, load |-> IRQ_LOAD_CTX]
    ELSE LET Outcome(d) ==
                 IF d.next # NoThread
                    THEN [S |-> d.S, st |-> d.st, cur |-> d.next,
                          save |-> d.next, load |-> d.next]
                    ELSE [S |-> d.S, st |-> d.st, cur |-> NoThread,
                          save |-> IRQ_SAVE_CTX, load |-> IRQ_LOAD_CTX]
         IN CHOOSE h \in {Outcome(d) : d \in {Reschedule}} : TRUE

\* irq_handler: only TIMER_IRQ reaches the scheduler.
IrqKinds == {"timer", "spurious", "other"}

\* One IRQ from exception entry to eret. The epilogue loads the frame
\* IRQ_LOAD_CTX points to; eret sets PSTATE from its pstate field (0x3c5 has
\* the I bit set). With a null IRQ_LOAD_CTX the handler spins with IRQs
\* masked ("b .").
IrqTaken(kind) ==
    /\ ~daifMasked
    /\ cpu.pc # "hung"
    /\ \E ctx1 \in {IrqPrologue(context)},
          h \in {IF kind = "timer" THEN handle_irq_preemption
                ELSE [S |-> Sched, st |-> state, cur |-> current_thread,
                      save |-> IRQ_SAVE_CTX, load |-> IRQ_LOAD_CTX]} :
          /\ context' = ctx1
          /\ SetSched(h.S)
          /\ state' = h.st
          /\ current_thread' = h.cur
          /\ IRQ_SAVE_CTX' = h.save
          /\ IRQ_LOAD_CTX' = h.load
          /\ IF h.load = 0
                THEN /\ cpu' = [cpu EXCEPT !.pc = "hung"]
                     /\ daifMasked' = TRUE
                ELSE /\ Run(Regs(ctx1[h.load]))
                     /\ daifMasked' = (ctx1[h.load].pstate = "INIT")

Irq(kind) ==
    /\ IrqTaken(kind)
    /\ UNCHANGED <<initialized, next_thread_id, num_cpus, priority,
                   join_result, joinTarget, joinRet, sftDone, apiVars>>

\* ------------------------------------------------------- thread execution
\* thread_trampoline reconstructs the closure and calls it; a closure that
\* captured a JoinHandle calls join() on it first.
TrampolineEnter ==
    /\ OnThread("entry")
    /\ Run([cpu EXCEPT !.pc = IF joinTarget[cpu.owner] # NoThread
                               THEN "join" ELSE "body"])
    /\ UNCHANGED <<kernelVars, num_cpus, schedVars, state, priority,
                   join_result, context, irqVars, daifMasked, joinTarget,
                   joinRet, sftDone, apiVars>>

\* The closure returns into thread_trampoline, which enters its wfe loop
\* (kernel.rs:156-169).
EntryReturn ==
    /\ OnThread("body")
    /\ Run([cpu EXCEPT !.pc = "halt"])
    /\ UNCHANGED <<kernelVars, num_cpus, schedVars, state, priority,
                   join_result, context, irqVars, daifMasked, joinTarget,
                   joinRet, sftDone, apiVars>>

\* One iteration of JoinHandle::join (thread_new/handle.rs:27-50): leave the
\* loop when the target is Finished and read the result, else yield_now.
JoinPoll ==
    /\ OnThread("join")
    /\ LET tgt == joinTarget[cpu.owner]
       IN IF state[tgt] = "Finished"
             THEN /\ joinRet' = [joinRet EXCEPT ![cpu.owner] =
                                    IF join_result[tgt] THEN "Ok" ELSE "Err"]
                  /\ Run([cpu EXCEPT !.pc = "body"])
                  /\ UNCHANGED <<current_thread, schedVars, state,
                                 daifMasked>>
             ELSE /\ yield_now("join")
                  /\ UNCHANGED joinRet
    /\ UNCHANGED <<initialized, next_thread_id, num_cpus, priority,
                   join_result, context, irqVars, joinTarget, sftDone,
                   apiVars>>

\* ------------------------------------------------------------ kernel spec
\* Threads whose closures do not join anybody.
Next ==
    \/ KernelInit
    \/ BootEnableInterrupts
    \/ \E p \in Priorities : Spawn(p, NoThread)
    \/ StartFirstPick
    \/ StartFirstSetIrq
    \/ StartFirstSwitch
    \/ \E kind \in IrqKinds : Irq(kind)
    \/ TrampolineEnter
    \/ YieldNow
    \/ YieldSwitch
    \/ EntryReturn

Spec == Init /\ [][Next]_vars

\* ------------------------------------------------- kernel spec with join
\* The same kernel with closures that call join() on a captured handle.
\* Code on the CPU keeps executing, and the timer keeps firing while IRQs
\* are unmasked.
SpawnJoiner == \E p \in Priorities, jt \in ThreadIds : Spawn(p, jt)

CpuProgress ==
    \/ StartFirstPick
    \/ StartFirstSetIrq
    \/ StartFirstSwitch
    \/ TrampolineEnter
    \/ YieldSwitch
    \/ JoinPoll

NextJoin ==
    \/ Next
    \/ SpawnJoiner
    \/ JoinPoll

JoinSpec ==
    /\ Init
    /\ [][NextJoin]_vars
    /\ WF_vars(CpuProgress)
    /\ WF_vars(Irq("timer"))

\* ------------------------------------------------------- queue contents
\* how many entries of queue q hold thread t
CountIn(q, t) == Cardinality({i \in DOMAIN q : q[i] = t})

\* how many entries of CPU c's queues hold thread t
CountOnCpu(c, t) ==
    CountIn(run_queues[c]["High"], t) + CountIn(run_queues[c]["Normal"], t)
    + CountIn(run_queues[c]["Low"], t) + CountIn(run_queues[c]["Idle"], t)

RECURSIVE CountUpTo(_, _)
CountUpTo(c, t) ==
    IF c < 0 THEN 0 ELSE CountOnCpu(c, t) + CountUpTo(c - 1, t)

\* how many queue entries of the scheduler hold thread t
QueueCount(t) == CountUpTo(MaxCpus - 1, t)

InQueue(t) ==
    \E c \in CpuIds, l \in Levels :
        \E i \in DOMAIN run_queues[c][l] : run_queues[c][l][i] = t

\* --------------------------------------- scheduler and thread API, direct
\* A caller that drives the Scheduler trait and the typed thread references
\* itself: it holds the ReadyRefs pick_next gave it (heldReady) and keeps the
\* RunningRef of the thread it runs in the current slot.
callerVars == <<initialized, next_thread_id, num_cpus, priority, context,
                irqVars, cpu, daifMasked, joinTarget, joinRet, sftDone>>

\* Scheduler::pick_next(0); the caller keeps the ReadyRef.
PickNext ==
    /\ \E r \in {pick_next(Sched, 0)} :
          /\ r.t # NoThread
          /\ SetSched(r.S)
          /\ heldReady' = heldReady \cup {r.t}
    /\ UNCHANGED <<callerVars, current_thread, state, join_result, finishing,
                   tryJoinSeen, histVars, extVars, spawnVars, handle>>

\* ReadyRef::start_running; the RunningRef goes into the empty slot.
StartRunning ==
    /\ current_thread = NoThread
    /\ \E t \in heldReady :
          /\ state' = start_running(state, t)
          /\ current_thread' = t
          /\ heldReady' = heldReady \ {t}
    /\ UNCHANGED <<callerVars, schedVars, join_result, finishing,
                   tryJoinSeen, histVars, extVars, spawnVars, handle>>

\* Scheduler::on_yield(current): stop_running, then enqueue.
on_yield(S, st, t) ==
    [S |-> enqueue(S, t, priority[t]), st |-> stop_running(st, t)]

OnYield ==
    /\ current_thread # NoThread
    /\ LET r == on_yield(Sched, state, current_thread)
       IN /\ SetSched(r.S)
          /\ state' = r.st
    /\ current_thread' = NoThread
    /\ UNCHANGED <<callerVars, join_result, apiVars>>

\* ArcLiteInner.count of thread t: one per live clone of its ArcLite. The
\* clones are the queue entries (ReadyRef), the ReadyRefs a caller holds, the
\* RunningRef in the current slot, the RunningRef that finish() is still
\* consuming, and the JoinHandle; Clone adds one, Drop calls dec.
ref_count(t) ==
    QueueCount(t)
    + (IF t \in heldReady THEN 1 ELSE 0)
    + (IF current_thread = t THEN 1 ELSE 0)
    + (IF finishing = t THEN 1 ELSE 0)
    + (IF handle[t] THEN 1 ELSE 0)

\* ArcLite::dec took the count from 1 to 0 and called deallocate
Destroyed(t) == t \in Created /\ ref_count(t) = 0

\* Drop for Stack, run when ArcLite::deallocate drops the ThreadInner: its
\* body is compiled only with the std-shim feature and hands the memory to
\* the system allocator; the kernel build has an empty body. Neither build
\* calls StackPool::deallocate, so the pool's counters are not touched.
drop_stack(pool, hp) == [pool |-> pool, heap |-> hp]

\* ArcLite::dec on a reference to thread t: fetch_sub, and deallocate when
\* the previous count was 1.
dec(t, pool, hp) ==
    IF ref_count(t) = 1
       THEN drop_stack(pool, hp)
       ELSE [pool |-> pool, heap |-> hp]

\* Scheduler::on_block(current): RunningRef::block, nothing is enqueued; the
\* RunningRef is dropped when block returns.
OnBlock ==
    /\ current_thread # NoThread
    /\ state' = block(state, current_thread)
    /\ current_thread' = NoThread
    /\ \E d \in {dec(current_thread, stack_pool, heap)} :
          /\ stack_pool' = d.pool
          /\ heap' = d.heap
    /\ UNCHANGED <<callerVars, schedVars, join_result, heldReady, finishing,
                   tryJoinSeen, histVars, extVars, minted, spawning, handle>>

\* Scheduler::wake_up(ReadyRef(thread)) on a thread that blocked: the body
\* is self.enqueue(thread).
wake_up(S, t) == enqueue(S, t, priority[t])

WakeUp ==
    /\ \E t \in Created :
          /\ state[t] = "Blocked"
          /\ ~InQueue(t)
          /\ t \notin heldReady
          /\ SetSched(wake_up(Sched, t))
    /\ UNCHANGED <<callerVars, current_thread, state, join_result, apiVars>>

\* RunningRef::finish, first statement: set_state(Finished).
FinishSetState ==
    /\ current_thread # NoThread
    /\ finishing = NoThread
    /\ state' = [state EXCEPT ![current_thread] = "Finished"]
    /\ finishing' = current_thread
    /\ current_thread' = NoThread
    /\ UNCHANGED <<callerVars, schedVars, join_result, heldReady,
                   tryJoinSeen, histVars, extVars, spawnVars, handle>>

\* RunningRef::finish, second statement: join_result.try_lock() and store
\* Some(()).
FinishPublish ==
    /\ finishing # NoThread
    /\ join_result' = [join_result EXCEPT ![finishing] = TRUE]
    /\ finishing' = NoThread
    /\ \E d \in {dec(finishing, stack_pool, heap)} :
          /\ stack_pool' = d.pool
          /\ heap' = d.heap
    /\ UNCHANGED <<callerVars, current_thread, schedVars, state, heldReady,
                   tryJoinSeen, histVars, extVars, minted, spawning, handle>>

\* JoinHandle::try_join
try_join(t) ==
    IF state[t] = "Finished"
       THEN (IF join_result[t] THEN "Ok" ELSE "Err")
       ELSE "None"

TryJoin ==
    /\ \E t \in Created :
          tryJoinSeen' = [tryJoinSeen EXCEPT ![t] = try_join(t)]
    /\ UNCHANGED <<callerVars, current_thread, schedVars, state, join_result,
                   heldReady, finishing, histVars, extVars, spawnVars, handle>>

ApiNext ==
    \/ KernelInit
    \/ \E p \in Priorities : Spawn(p, NoThread)
    \/ PickNext
    \/ StartRunning
    \/ OnYield
    \/ OnBlock
    \/ WakeUp
    \/ FinishSetState
    \/ FinishPublish
    \/ TryJoin

ApiSpec == Init /\ [][ApiNext]_vars

\* the CPU is not inside the body of spawn, yield_now, start_first_thread or
\* handle_irq_preemption
Quiescent == cpu.pc \in {"boot", "boot_done", "entry", "body", "join", "halt",
                         "hung"}

\* an IRQ can be taken
IrqCanBeTaken == ~daifMasked /\ cpu.pc # "hung"

\* C1: wherever an IRQ can be taken after start_first_thread, IRQ_SAVE_CTX and
\* IRQ_LOAD_CTX are null or the context buffer of the thread that is in the
\* current slot with state Running.
C1_IrqPointersAtRunning ==
    (sftDone /\ IrqCanBeTaken) =>
        \A ptr \in {IRQ_SAVE_CTX, IRQ_LOAD_CTX} :
            ptr = 0 \/ (ptr = current_thread /\ state[ptr] = "Running")

\* C2: a suspended thread's registers are in its own context buffer: no
\* thread's context buffer ever holds the registers of another thread, so a
\* resumed thread gets back the state it was suspended with.
C2_SavedInOwnBuffer ==
    \A x \in Created :
        context[x].owner \in ThreadIds => context[x].owner = x

\* The number of the four dispositions thread t is in: current (in the
\* slot), queued, Blocked, Finished with its result published.
Dispositions(t) ==
    (IF current_thread = t THEN 1 ELSE 0)
    + (IF InQueue(t) THEN 1 ELSE 0)
    + (IF state[t] = "Blocked" THEN 1 ELSE 0)
    + (IF state[t] = "Finished" /\ join_result[t] THEN 1 ELSE 0)

C4_AtMostOneRunning ==
    Cardinality({t \in Created : state[t] = "Running"}) <= 1

\* C4 happens: a thread is Running after the timer preempted another one,
\* which is Ready again.
C4_Witness ==
    \E t, u \in Created :
        /\ state[t] = "Running"
        /\ state[u] = "Ready"
        /\ context[u].pstate = "SPSR"

\* C5: every thread in a ready queue has state Ready, whichever operation
\* enqueued it (spawn, yield, preemption, wake-up).
C5_QueuedAreReady ==
    \A t \in Created : InQueue(t) => state[t] = "Ready"

C7_NoObserverSeesEmptyResult ==
    \A t \in Created : tryJoinSeen[t] # "Err"

\* C8: a thread whose entry function has returned (it is in the
\* trampoline's halt loop) becomes Finished.
C8_ReturnLeadsToFinished ==
    \A t \in ThreadIds :
        (cpu.owner = t /\ cpu.pc = "halt") ~> (state[t] = "Finished")

\* Thread t has returned from its entry function: its execution is in the
\* trampoline's loop, on the CPU or suspended.
Returned(t) ==
    \/ cpu.owner = t /\ cpu.pc = "halt"
    \/ cpu.owner # t /\ context[t].owner = t /\ context[t].pc = "halt"

\* C9: when a thread T has returned from its entry function and another
\* thread is in join() on T's handle, that join() eventually returns Ok, and
\* a join() has returned only if T is Finished.
C9_JoinReturnsOk ==
    \A j \in ThreadIds :
        /\ (joinTarget[j] # NoThread /\ Returned(joinTarget[j])
              /\ cpu.owner = j /\ cpu.pc = "join") ~> (joinRet[j] = "Ok")
        /\ [](joinRet[j] # "none" => state[joinTarget[j]] = "Finished")

\* The transitions of the thread state machine.
AllowedTransitions ==
    {<<"Ready", "Running">>, <<"Running", "Ready">>, <<"Running", "Blocked">>,
     <<"Blocked", "Ready">>, <<"Running", "Finished">>}

\* C10: a thread starts Ready and its state changes only along
\* Ready->Running, Running->Ready, Running->Blocked, Blocked->Ready and
\* Running->Finished; Finished never changes.
C10_OnlyAllowedTransitions ==
    [][\A t \in ThreadIds :
          /\ (t \in Created /\ state'[t] # state[t]) =>
                <<state[t], state'[t]>> \in AllowedTransitions
          /\ (t \notin Created /\ next_thread_id' > t) =>
                state'[t] = "Ready"]_vars

\* C11: in yield_now, IRQs are masked from the slot lock until the context
\* switch has been performed: between publishing the next thread and
\* executing context_switch no IRQ can be taken.
C11_SwitchRunsMasked ==
    cpu.pc = "yield_cs" => daifMasked

\* C12: a thread executes its entry function with IRQs unmasked, whether it
\* was entered through context_switch or through the IRQ epilogue's eret.
C12_EntryRunsUnmasked ==
    (cpu.owner \in ThreadIds /\ cpu.pc = "body") => ~daifMasked

\* The case of C13: a scheduling decision taken with a thread in the slot in
\* which pick_next(0) returns None (kernel.rs:275-278 and 469-472).
PickFindsNoThread ==
    /\ initialized
    /\ current_thread # NoThread
    /\ Reschedule.next = NoThread

\* C13: when pick_next finds no thread during yield_now or
\* handle_irq_preemption, the calling thread continues as the current thread:
\* still in the slot and Running, in no queue, IRQ context pointers unchanged.
C13_NoneKeepsCurrent ==
    [][(PickFindsNoThread /\ (YieldNow \/ Irq("timer")))
          => /\ current_thread' = current_thread
             /\ state'[current_thread] = "Running"
             /\ ~InQueue(current_thread)'
             /\ UNCHANGED irqVars]_vars

\* The case of C13 never arises: the caller is enqueued before pick_next(0)
\* runs, and select_cpu only places it on another CPU when CPU 0 already
\* holds a thread, so pick_next(0) always returns a thread.
C13_PickAlwaysFinds ==
    ~PickFindsNoThread

\* C14: when start_first_thread performs its context switch, the picked thread
\* is in the slot with state Running, IRQ_SAVE_CTX and IRQ_LOAD_CTX both hold
\* its context address, and the switch enters that thread (its buffer holds
\* its own frame), so that the first IRQ afterwards saves into its buffer.
C14_PointersSetBeforeFirstSwitch ==
    [][StartFirstSwitch
          => /\ current_thread = cpu.next
             /\ state[cpu.next] = "Running"
             /\ IRQ_SAVE_CTX = cpu.next
             /\ IRQ_LOAD_CTX = cpu.next
             /\ context[cpu.next].owner = cpu.next]_vars

\* PriorityLevel as a number: a larger rank is served first by pick_next.
LevelRank(l) ==
    CASE l = "High" -> 3 [] l = "Normal" -> 2 [] l = "Low" -> 1
      [] l = "Idle" -> 0

ClassRank(t) == LevelRank(priority_level(priority[t]))

\* yield_now or handle_irq_preemption takes a scheduling decision in this
\* step: the kernel is initialized and the slot holds a thread.
SchedulingDecision ==
    /\ initialized
    /\ current_thread # NoThread
    /\ (YieldNow \/ Irq("timer"))

\* C15: after every scheduling decision of yield_now or
\* handle_irq_preemption, the thread made current belongs to the highest
\* priority class that has any ready thread: no queued (Ready) thread is of a
\* higher class than the new current thread.
C15_CurrentIsHighestReadyClass ==
    [][SchedulingDecision
          => \A u \in Created :
                InQueue(u)' => ClassRank(u) <= ClassRank(current_thread')]_vars

\* The running thread is of class Idle or Low and a thread of a higher class
\* is ready (queued).
LowerClassRunning ==
    /\ initialized
    /\ current_thread # NoThread
    /\ ClassRank(current_thread) <= LevelRank("Low")
    /\ \E u \in Created :
          InQueue(u) /\ ClassRank(u) > ClassRank(current_thread)

\* C16: when the running thread is of a lower class (Idle or Low) and a
\* thread of a higher class is ready, a timer tick replaces the running
\* thread by a thread of a higher class.
C16_TickReplacesLowerClass ==
    [][(LowerClassRunning /\ Irq("timer"))
          => ClassRank(current_thread') > ClassRank(current_thread)]_vars

\* ------------------------------------------------- threads that never return
\* Every thread body is a loop that calls yield_now (examples/rpi_kernel.rs
\* thread bodies): the kernel's steps without EntryReturn.
YieldLoopNext ==
    \/ KernelInit
    \/ BootEnableInterrupts
    \/ \E p \in Priorities : Spawn(p, NoThread)
    \/ StartFirstPick
    \/ StartFirstSetIrq
    \/ StartFirstSwitch
    \/ \E kind \in IrqKinds : Irq(kind)
    \/ TrampolineEnter
    \/ YieldNow
    \/ YieldSwitch

\* The steps the CPU takes by itself when threads loop over yield_now.
YieldLoopProgress ==
    \/ StartFirstPick
    \/ StartFirstSetIrq
    \/ StartFirstSwitch
    \/ TrampolineEnter
    \/ YieldNow
    \/ YieldSwitch

\* The CPU keeps executing, the threads keep yielding and the periodic timer
\* keeps firing whenever IRQs are unmasked.
YieldLoopSpec ==
    Init /\ [][YieldLoopNext]_vars /\ WF_vars(YieldLoopProgress)
         /\ WF_vars(Irq("timer"))

\* Thread t is Ready in a queue and no thread that is queued or current is of
\* a higher class; the boot code has handed the CPU over to the threads for
\* good (no context buffer holds its registers).
ReadyInHighestClass(t) ==
    /\ sftDone
    /\ cpu.owner \in ThreadIds
    /\ \A x \in ThreadIds : context[x].owner # BootOwner
    /\ InQueue(t)
    /\ \A u \in Created :
          (InQueue(u) \/ current_thread = u) => ClassRank(u) <= ClassRank(t)

\* C17: under periodic ticks and repeated yields, every Ready thread whose
\* class is the highest class with ready threads is eventually made current,
\* whichever CPU's queue it was placed on.
C17_HighestClassEventuallyRuns ==
    \A t \in ThreadIds : ReadyInHighestClass(t) ~> (current_thread = t)

\* ---------------------------------------------- cooperative threads, no IRQs
\* The kernel without a timer (examples/simple_test.rs programs none): the
\* thread bodies loop over { emit a letter; yield_now } and no IRQ is taken.
\* A YieldNow step is one iteration of a body: the emission and the call.
CoopNext ==
    \/ KernelInit
    \/ BootEnableInterrupts
    \/ \E p \in Priorities : Spawn(p, NoThread)
    \/ StartFirstPick
    \/ StartFirstSetIrq
    \/ StartFirstSwitch
    \/ TrampolineEnter
    \/ YieldNow
    \/ YieldSwitch

CoopSpec == Init /\ [][CoopNext]_vars

\* The thread whose body executes next and so emits the next letter: the
\* thread on the CPU, or the one the pending context_switch resumes.
NextEmitter ==
    IF cpu.pc = "yield_cs" /\ cpu.next # cpu.prev
       THEN context[cpu.next].owner
       ELSE cpu.owner

\* Exactly two threads exist and they have the same priority.
TwoEqualThreads ==
    /\ next_thread_id = 3
    /\ priority[1] = priority[2]

SchedPriorities == {0, 10, 32, 128, 200}

SchedInit ==
    /\ initialized = FALSE
    /\ next_thread_id = 1
    /\ current_thread = NoThread
    /\ num_cpus \in 1..MaxCpus
    /\ run_queues = [c \in CpuIds |-> [l \in Levels |-> <<>>]]
    /\ thread_count = [c \in CpuIds |-> 0]
    /\ runnable_threads = 0
    /\ state = [t \in ThreadIds |-> "Ready"]
    /\ priority \in [ThreadIds -> SchedPriorities]
    /\ join_result = [t \in ThreadIds |-> FALSE]
    /\ context = [t \in ThreadIds |-> setup_initial_context(t)]
    /\ IRQ_SAVE_CTX = 0
    /\ IRQ_LOAD_CTX = 0
    /\ cpu = CpuRegs(BootOwner, "boot", "none", 0, 0)
    /\ daifMasked = TRUE
    /\ joinTarget = [t \in ThreadIds |-> NoThread]
    /\ joinRet = [t \in ThreadIds |-> "none"]
    /\ sftDone = FALSE
    /\ heldReady = {}
    /\ finishing = NoThread
    /\ tryJoinSeen = [t \in ThreadIds |-> "none"]
    /\ order = <<>>
    /\ lastPick = [t |-> NoThread, cpu |-> 0, before |-> <<>>,
                   rq |-> run_queues]
    /\ requested = [t \in ThreadIds |-> {}]
    /\ stack_pool = [allocated |-> 0, in_use |-> 0]
    /\ heap = HeapStacks
    /\ minted = <<>>
    /\ spawning = [k \in Callers |-> NotSpawning("none")]
    /\ handle = [t \in ThreadIds |-> FALSE]
    /\ free_stacks = [c \in PoolClasses |-> [list |-> <<>>, owner |-> "free"]]
    /\ pool_user = [k \in Callers |-> PoolIdle({}, NoStack)]
    /\ built = NoBuilt
    /\ timer = [freq |-> 0, now |-> 0, cval |-> 0, ctl |-> 0, ret |-> "none"]
    /\ gic = [iar |-> 0, events |-> <<>>]
    /\ lfq = LockFreeQueue_new
    /\ slot_lock = [owner |-> "free", yielding |-> {}]
    /\ arch = ArchBoot

notSchedVars == <<kernelVars, num_cpus, state, priority, join_result,
                  context, irqVars, cpu, daifMasked, joinTarget, joinRet,
                  sftDone, heldReady, finishing, tryJoinSeen, extVars,
                  spawnVars,
                  handle>>

\* Scheduler::enqueue(ReadyRef(t))
SchedEnqueue(t) ==
    /\ ~InQueue(t)
    /\ SetSched(enqueue(Sched, t, priority[t]))
    /\ order' = Append(order, t)
    /\ UNCHANGED <<lastPick, requested, notSchedVars>>

\* Scheduler::pick_next(c); the ReadyRef returned leaves the scheduler.
SchedPick(c) ==
    /\ \E r \in {pick_next(Sched, c)} :
          /\ SetSched(r.S)
          /\ lastPick' = [t |-> r.t, cpu |-> c, before |-> order,
                          rq |-> run_queues]
          /\ order' = SelectSeq(order, LAMBDA x : x # r.t)
    /\ UNCHANGED <<requested, notSchedVars>>

SchedNext ==
    \/ \E t \in ThreadIds : SchedEnqueue(t)
    \/ \E c \in CpuIds : SchedPick(c)

SchedSpec == SchedInit /\ [][SchedNext]_vars

\* x occurs in the sequence seq
InSeq(seq, x) == \E i \in DOMAIN seq : seq[i] = x

\* the position of x in seq
Pos(seq, x) == CHOOSE i \in DOMAIN seq : seq[i] = x

\* The threads that wait in the same queue (same CPU, same class) as t.
QueueMates(t) ==
    {u \in ThreadIds \ {t} :
        \E c \in CpuIds, l \in Levels :
            InSeq(run_queues[c][l], t) /\ InSeq(run_queues[c][l], u)}

Victims(c) == [i \in 1..(num_cpus - 1) |-> (c + i) % num_cpus]

\* The queues pick_next(c) may take a thread from, in the order the claim
\* gives: the four queues of c, then Normal and Low of each victim.
Sources(c) ==
    << <<c, "High">>, <<c, "Normal">>, <<c, "Low">>, <<c, "Idle">> >>
    \o [k \in 1..(2 * (num_cpus - 1)) |->
           <<Victims(c)[(k + 1) \div 2],
             IF k % 2 = 1 THEN "Normal" ELSE "Low">>]

\* The head of the first non-empty source of c in the queues rq, NoThread
\* when all sources are empty.
FirstOfSources(rq, c) ==
    LET src == Sources(c)
        full == {k \in DOMAIN src : rq[src[k][1]][src[k][2]] # <<>>}
    IN IF full = {} THEN NoThread
       ELSE LET k == CHOOSE m \in full : \A n \in full : m <= n
            IN Head(rq[src[k][1]][src[k][2]])

C21_NoneOnlyWhenAllEmpty ==
    [][\A c \in CpuIds :
          (c < num_cpus /\ SchedPick(c) /\ order # <<>>)
             => lastPick'.t # NoThread]_vars

\* C22: with all threads enqueued on one CPU, pick_next returns threads in
\* non-increasing order of their numeric priority: the thread a pick returns
\* has a priority at least as high as every thread that is still queued.
C22_PicksByNumericPriority ==
    [][(num_cpus = 1 /\ SchedPick(0))
          => \A u \in ThreadIds :
                InQueue(u)' => priority[u] <= priority[lastPick'.t]]_vars

\* ------------------------------------------------------ Scheduler::on_tick
\* RoundRobinScheduler::on_tick(&current) as a function of the scheduler
\* queues rq, the thread states st and the clock's answer expired
\* (TimeSlice::should_preempt). RunningRef::last_cpu() is 0. The result pairs
\* the thread of the returned ReadyRef (NoThread for None) with the thread
\* states after the call; the queues are only peeked at.
on_tick(rq, st, current, expired) ==
    IF ~expired THEN [ret |-> NoThread, st |-> st]
    ELSE LET st1 == prepare_preemption(st, current)
             q == rq[0]
             lvl == priority_level(priority[current])
             found ==
                 CASE lvl = "Idle" -> \/ q["Low"] # <<>>
                                      \/ q["Normal"] # <<>>
                                      \/ q["High"] # <<>>
                   [] lvl = "Low" -> q["Normal"] # <<>> \/ q["High"] # <<>>
                   [] lvl = "Normal" -> q["High"] # <<>>
                   [] lvl = "High" -> TRUE
         IN IF 0 < num_cpus /\ found
               THEN [ret |-> current, st |-> st1]
               ELSE [ret |-> NoThread, st |-> st1]

\* The caller of the scheduler API passes its RunningRef to on_tick; the
\* ReadyRef it gets back is dropped again.
OnTick(expired) ==
    /\ current_thread # NoThread
    /\ \E r \in {on_tick(run_queues, state, current_thread, expired)} :
          state' = r.st
    /\ UNCHANGED <<callerVars, current_thread, schedVars, join_result,
                   apiVars>>

TickNext == ApiNext \/ \E expired \in BOOLEAN : OnTick(expired)

TickSpec == Init /\ [][TickNext]_vars

\* A thread that may replace t under the class rules is queued on the CPU t
\* runs on: for a High thread another High thread, else a thread of a higher
\* class.
EligibleQueued(t) ==
    \E l \in Levels :
        /\ run_queues[0][l] # <<>>
        /\ IF priority_level(priority[t]) = "High" THEN l = "High"
           ELSE LevelRank(l) > ClassRank(t)

\* C23: on_tick(current) returns Some exactly when current's time slice has
\* expired and a ready thread that is eligible under the class rules is
\* queued; in every other case it returns None.
C23_TickSomeIffExpiredAndEligible ==
    [][\A e \in BOOLEAN :
          OnTick(e)
             => ((on_tick(run_queues, state, current_thread, e).ret
                     # NoThread)
                 <=> (e /\ EligibleQueued(current_thread)))]_vars

\* C24: whenever on_tick(current) returns Some(r), r is a ready thread other
\* than current that was taken from a ready queue.
C24_TickReturnsReplacement ==
    [][\A e \in BOOLEAN :
          (OnTick(e)
           /\ on_tick(run_queues, state, current_thread, e).ret # NoThread)
             => /\ on_tick(run_queues, state, current_thread, e).ret
                      # current_thread
                /\ InQueue(on_tick(run_queues, state, current_thread,
                                   e).ret)]_vars

\* C25: whenever on_tick(current) returns None, current is untouched: its
\* state is still Running, it is in no queue, and the scheduler's queues and
\* counters are unchanged.
C25_TickNoneLeavesCurrent ==
    [][\A e \in BOOLEAN :
          (OnTick(e) /\ state[current_thread] = "Running"
           /\ on_tick(run_queues, state, current_thread, e).ret = NoThread)
             => /\ state'[current_thread] = "Running"
                /\ \A c \in CpuIds, l \in Levels :
                      ~InSeq(run_queues'[c][l], current_thread)
                /\ UNCHANGED schedVars]_vars

\* ------------------------------------------------- Scheduler::set_priority
\* RoundRobinScheduler::set_priority(thread_id, p): the body discards both
\* arguments ("let _ = (thread_id, priority)"); neither the scheduler nor the
\* thread changes. requested records the call.
SetPriority(t, p) ==
    /\ requested' = [requested EXCEPT ![t] = {p}]
    /\ UNCHANGED <<order, lastPick, schedVars, notSchedVars>>

PrioInit == SchedInit /\ \A t \in ThreadIds : priority[t] \in Priorities

PrioNext ==
    \/ SchedNext
    \/ \E t \in ThreadIds, p \in Priorities : SetPriority(t, p)

PrioSpec == PrioInit /\ [][PrioNext]_vars

\* C26: after Scheduler::set_priority(id, p) the thread has priority p no
\* later than its next enqueue: an enqueue of the thread places it in the
\* queue of the priority class of p.
C26_SetPriorityEffectiveAtEnqueue ==
    [][\A t \in ThreadIds, p \in Priorities :
          (SchedEnqueue(t) /\ requested[t] = {p})
             => \E c \in CpuIds :
                   InSeq(run_queues'[c][priority_level(p)], t)]_vars

\* ------------------------------------------- Kernel::spawn, step by step
\* Kernel::spawn (kernel.rs:114-139) as its callers can interleave: the
\* initialized check and the stack allocation, then next_thread_id, then
\* Thread::new, setup_initial_context and Scheduler::enqueue.
InFlight == Cardinality({k \in Callers : spawning[k].pc # "idle"})

spawnFrame == <<current_thread, num_cpus, irqVars, cpu, daifMasked, joinRet,
                sftDone, heldReady, finishing, tryJoinSeen, histVars, extVars>>

\* if !is_initialized() return Err(NotInitialized);
\* let stack = stack_pool.allocate(Medium).ok_or(OutOfMemory)?;
SpawnCall(k, p) ==
    /\ spawning[k].pc = "idle"
    /\ next_thread_id + InFlight <= MaxThreads
    /\ IF ~initialized
          THEN /\ spawning' = [spawning EXCEPT
                                  ![k] = NotSpawning("NotInitialized")]
               /\ UNCHANGED <<stack_pool, heap>>
          ELSE \E a \in {allocate(stack_pool, heap)} :
                  /\ stack_pool' = a.pool
                  /\ heap' = a.heap
                  /\ spawning' = [spawning EXCEPT ![k] =
                        IF a.stack
                           THEN [pc |-> "allocated", p |-> p, id |-> 0,
                                 ret |-> "none"]
                           ELSE NotSpawning("OutOfMemory")]
    /\ UNCHANGED <<initialized, next_thread_id, minted, schedVars, state,
                   priority, join_result, context, joinTarget, handle,
                   spawnFrame>>

\* let thread_id = self.next_thread_id();
SpawnMint(k) ==
    /\ spawning[k].pc = "allocated"
    /\ \E f \in {fetch_add(next_thread_id)} :
          /\ next_thread_id' = f.next
          /\ minted' = Append(minted, f.prev)
          /\ spawning' = [spawning EXCEPT ![k].pc = "minted",
                                          ![k].id = f.prev]
    /\ UNCHANGED <<initialized, stack_pool, heap, schedVars, state, priority,
                   join_result, context, joinTarget, handle, spawnFrame>>

\* Thread::new, setup_initial_context, scheduler.enqueue, Ok(join_handle)
SpawnEnqueue(k) ==
    /\ spawning[k].pc = "minted"
    /\ LET t == spawning[k].id
           p == spawning[k].p
       IN /\ state' = [state EXCEPT ![t] = "Ready"]
          /\ priority' = [priority EXCEPT ![t] = p]
          /\ join_result' = [join_result EXCEPT ![t] = FALSE]
          /\ context' = [context EXCEPT ![t] = setup_initial_context(t)]
          /\ joinTarget' = [joinTarget EXCEPT ![t] = NoThread]
          /\ handle' = [handle EXCEPT ![t] = TRUE]
          /\ SetSched(enqueue(Sched, t, p))
    /\ spawning' = [spawning EXCEPT ![k] = NotSpawning("Ok")]
    /\ UNCHANGED <<initialized, next_thread_id, minted, stack_pool, heap,
                   spawnFrame>>

\* Another allocation of the program (a boxed closure, an ArcLite) takes
\* memory from the global allocator.
HeapAlloc ==
    /\ heap > 0
    /\ heap' = heap - 1
    /\ UNCHANGED <<kernelVars, num_cpus, schedVars, state, priority,
                   join_result, context, irqVars, cpu, daifMasked, joinTarget,
                   joinRet, sftDone, heldReady, finishing, tryJoinSeen,
                   histVars, extVars, stack_pool, minted, spawning, handle>>

\* ThreadBuilder::new(): -1 stands for None
DefaultConfig ==
    [name_len |-> -1, affinity |-> -1, size |-> -1, canary |-> "default"]

\* ThreadBuilder configurations: the default and one setter applied to it.
\* A name of 65 bytes, the affinity mask 0 and a custom stack of 1024 bytes
\* are the invalid ones; canary is stack_canary(false), the default, or
\* custom_canary(value).
BuilderConfigs ==
    {DefaultConfig,
     [DefaultConfig EXCEPT !.name_len = 65],
     [DefaultConfig EXCEPT !.name_len = 65, !.size = 1024],
     [DefaultConfig EXCEPT !.affinity = 0],
     [DefaultConfig EXCEPT !.size = 1024],
     [DefaultConfig EXCEPT !.size = 4096],
     [DefaultConfig EXCEPT !.size = 8192],
     [DefaultConfig EXCEPT !.size = 65536],
     [DefaultConfig EXCEPT !.canary = "off"],
     [DefaultConfig EXCEPT !.canary = "custom"]}

\* the configurations that decide whether ThreadBuilder::spawn returns an
\* error: the default and the invalid ones
SpawnConfigs == {cfg \in BuilderConfigs : cfg.size \in {-1, 1024}
                                          /\ cfg.canary = "default"}

\* StackSizeClass::size
class_size(c) ==
    CASE c = "Small" -> 4096
      [] c = "Medium" -> 16384
      [] c = "Large" -> 65536
      [] c = "ExtraLarge" -> 262144

\* StackSizeClass::for_size: the smallest class that holds the request
for_size(n) ==
    IF n <= 4096 THEN "Small"
    ELSE IF n <= 16384 THEN "Medium"
    ELSE IF n <= 65536 THEN "Large"
    ELSE IF n <= 262144 THEN "ExtraLarge"
    ELSE "None"

\* the class ThreadBuilder::spawn asks the pool for (builder.rs:238-253)
builder_class(size) ==
    IF size = -1 THEN "Small"
    ELSE IF size <= 16384 THEN "Small"
    ELSE IF size <= 65536 THEN "Medium"
    ELSE IF size <= 262144 THEN "Large"
    ELSE "ExtraLarge"

\* ThreadBuilder::spawn(self, thread_id, stack_pool, entry_point): the three
\* validations, then the stack allocation, the canary store and Thread::new.
\* The id is an argument and the thread goes to the caller, not to a
\* scheduler. The stack comes from the allocator uninitialised: uninit is
\* what its lowest word happens to hold. The canary is stored through
\* stack.stack_bottom(), the word at the highest address.
builder_spawn(cfg, uninit, pool, hp) ==
    IF cfg.name_len > 64
       THEN [ret |-> "InvalidName", pool |-> pool, heap |-> hp,
             thread |-> NoBuilt]
    ELSE IF cfg.affinity = 0
       THEN [ret |-> "InvalidAffinity", pool |-> pool, heap |-> hp,
             thread |-> NoBuilt]
    ELSE IF cfg.size # -1 /\ (cfg.size < 4096 \/ cfg.size > 16 * 1024 * 1024)
       THEN [ret |-> "InvalidStackSize", pool |-> pool, heap |-> hp,
             thread |-> NoBuilt]
    ELSE LET a == allocate(pool, hp)
             c == builder_class(cfg.size)
         IN [ret |-> IF a.stack THEN "Ok" ELSE "OutOfMemory",
             pool |-> a.pool, heap |-> a.heap,
             thread |->
                IF a.stack
                   THEN [class |-> c,
                         usable |-> class_size(c),
                         requested |-> cfg.size,
                         canary |-> cfg.canary,
                         top |-> uninit,
                         end |-> CASE cfg.canary = "off" -> "OTHER"
                                   [] cfg.canary = "default" -> Sentinel
                                   [] cfg.canary = "custom" -> "CUSTOM"]
                   ELSE NoBuilt]

BuilderSpawn(k, cfg, uninit) ==
    /\ spawning[k].pc = "idle"
    /\ \E r \in {builder_spawn(cfg, uninit, stack_pool, heap)} :
          /\ spawning' = [spawning EXCEPT ![k] = NotSpawning(r.ret)]
          /\ stack_pool' = r.pool
          /\ heap' = r.heap
          /\ built' = IF r.ret = "Ok" THEN r.thread ELSE built
    /\ UNCHANGED <<initialized, next_thread_id, minted, schedVars, state,
                   priority, join_result, context, joinTarget, handle,
                   current_thread, num_cpus, irqVars, cpu, daifMasked,
                   joinRet, sftDone, heldReady, finishing, tryJoinSeen,
                   histVars, poolVars, timer, gic, lfq, slot_lock, arch>>

SpawnNext ==
    \/ KernelInit
    \/ HeapAlloc
    \/ \E k \in Callers, p \in Priorities : SpawnCall(k, p)
    \/ \E k \in Callers : SpawnMint(k)
    \/ \E k \in Callers : SpawnEnqueue(k)
    \/ \E k \in Callers, cfg \in SpawnConfigs : BuilderSpawn(k, cfg, "OTHER")

SpawnSpec == Init /\ [][SpawnNext]_vars

\* C27: every id next_thread_id hands out is non-zero, greater than every id
\* handed out before it, and so different from every other id of the boot
\* session, also when the calls of spawn interleave.
C27_IdsNonZeroIncreasingUnique ==
    \A i \in 1..Len(minted) :
       /\ minted[i] # 0
       /\ \A j \in 1..(i - 1) : minted[j] < minted[i]

\* two spawns are between next_thread_id and enqueue at the same time
C27_Witness ==
    /\ Len(minted) = 2
    /\ \A k \in Callers : spawning[k].pc = "minted"

\* the pool cannot supply a stack: no free stack and the allocator is empty
AtCapacity == heap = 0

\* C28: when the stack pool cannot supply a stack, spawn returns OutOfMemory,
\* creates and enqueues no thread and leaves the ThreadId counter alone.
C28_OutOfMemoryCreatesNothing ==
    [][\A k \in Callers, p \in Priorities :
          (SpawnCall(k, p) /\ initialized /\ AtCapacity)
             => /\ spawning'[k] = NotSpawning("OutOfMemory")
                /\ UNCHANGED <<next_thread_id, minted, schedVars, state,
                               handle>>]_vars

\* a spawn on the initialized kernel has returned OutOfMemory
C28_Witness ==
    /\ initialized
    /\ AtCapacity
    /\ \E k \in Callers : spawning[k].ret = "OutOfMemory"

SpawnErrors == {"NotInitialized", "OutOfMemory", "InvalidName",
                "InvalidAffinity", "InvalidStackSize"}

\* caller k makes a call of Kernel::spawn or ThreadBuilder::spawn in this
\* step and the call returns an error
SpawnReturnsError(k) ==
    /\ \/ \E p \in Priorities : SpawnCall(k, p)
       \/ \E cfg \in SpawnConfigs : BuilderSpawn(k, cfg, "OTHER")
    /\ spawning'[k].pc = "idle"
    /\ spawning'[k].ret \in SpawnErrors

\* C29: whenever spawn returns an error, the scheduler queues, the current
\* slot, the ThreadId counter and the pool's in-use count are what they were
\* before the call.
C29_ErrorLeavesStateAsBefore ==
    [][\A k \in Callers :
          SpawnReturnsError(k)
             => /\ UNCHANGED <<schedVars, current_thread, next_thread_id>>
                /\ stack_pool'.in_use = stack_pool.in_use]_vars

\* one call was refused by the builder's validation and another one by the
\* kernel, with a thread already spawned
C29_Witness ==
    /\ \E k \in Callers : spawning[k].ret = "InvalidStackSize"
    /\ \E k \in Callers : spawning[k].ret = "OutOfMemory"
    /\ runnable_threads > 0

\* ------------------------------------------ the shared record's lifetime
\* The owner of a JoinHandle drops it without joining.
DropHandle(t) ==
    /\ t \in Created
    /\ handle[t]
    /\ handle' = [handle EXCEPT ![t] = FALSE]
    /\ \E d \in {dec(t, stack_pool, heap)} :
          /\ stack_pool' = d.pool
          /\ heap' = d.heap
    /\ UNCHANGED <<callerVars, current_thread, schedVars, state, join_result,
                   heldReady, finishing, tryJoinSeen, histVars, extVars, minted,
                   spawning>>

\* The scheduler API driven by a caller that keeps no clone of a thread it
\* blocks (the crate has no wait queue), so wake_up has nothing to pass.
RefNext ==
    \/ KernelInit
    \/ \E p \in Priorities : Spawn(p, NoThread)
    \/ \E t \in ThreadIds : DropHandle(t)
    \/ PickNext
    \/ StartRunning
    \/ OnYield
    \/ OnBlock
    \/ FinishSetState
    \/ FinishPublish
    \/ TryJoin

RefSpec == Init /\ [][RefNext]_vars

\* C30: a thread's shared record is destroyed only after the thread is
\* Finished and every join handle is released; a Ready, Running or Blocked
\* thread has at least one reference.
C30_DestroyedOnlyAfterFinished ==
    \A t \in Created :
       /\ Destroyed(t) => (state[t] = "Finished" /\ ~handle[t])
       /\ state[t] \in {"Ready", "Running", "Blocked"} => ref_count(t) >= 1

\* every thread the kernel created has finished and lost its last reference
AllFinishedAndDropped ==
    /\ Created # {}
    /\ InFlight = 0
    /\ \A t \in Created : state[t] = "Finished" /\ Destroyed(t)

\* C31: when a finished thread's last reference is dropped its stack goes
\* back to the pool, so once every spawned thread has finished and been
\* released the pool's in-use count is back at its initial value.
C31_StacksReturnToPool ==
    AllFinishedAndDropped => stack_pool.in_use = 0

\* --------------------------------------- StackPool driven by direct users
\* StackPool::allocate and StackPool::deallocate as two callers can
\* interleave them. The lock of a free list is taken with try_lock and held
\* until the guard goes out of scope, so each call is a try_lock step and a
\* step under the lock.
poolFrame == <<kernelVars, num_cpus, schedVars, state, priority, join_result,
               context, irqVars, cpu, daifMasked, joinTarget, joinRet,
               sftDone, heldReady, finishing, tryJoinSeen, histVars, minted,
               spawning, handle, built, timer, gic, lfq, slot_lock, arch>>

ListSet(q) == {q[i] : i \in DOMAIN q}

\* StackPool::allocate_new_stack(size_class): None when the allocator
\* returns null, else a fresh stack of the class and the counters of
\* allocate.
allocate_new_stack(c, pool, hp) ==
    LET a == allocate(pool, hp)
    IN [stack |-> IF a.stack THEN [id |-> a.pool.allocated, class |-> c]
                             ELSE NoStack,
        pool |-> a.pool,
        heap |-> a.heap]

\* allocate, first statement: free_stacks[class_index].try_lock()
PoolAllocate(k, c) ==
    /\ pool_user[k].pc = "idle"
    /\ IF free_stacks[c].owner = "free"
          THEN /\ free_stacks' = [free_stacks EXCEPT ![c].owner = k]
               /\ pool_user' = [pool_user EXCEPT
                     ![k].pc = "alloc_locked",
                     ![k].class = c,
                     ![k].seen = ListSet(free_stacks[c].list)]
          ELSE /\ pool_user' = [pool_user EXCEPT
                     ![k].pc = "alloc_new",
                     ![k].class = c,
                     ![k].seen = ListSet(free_stacks[c].list)]
               /\ UNCHANGED free_stacks
    /\ UNCHANGED <<stack_pool, heap, poolFrame>>

\* allocate under the lock: free_list.pop(), in_use += 1 and return, or
\* fall through to allocate_new_stack; the guard is dropped either way.
PoolAllocPop(k) ==
    /\ pool_user[k].pc = "alloc_locked"
    /\ LET c == pool_user[k].class
           q == free_stacks[c].list
       IN IF q # <<>>
             THEN /\ free_stacks' = [free_stacks EXCEPT
                        ![c] = [list |-> SubSeq(q, 1, Len(q) - 1),
                                owner |-> "free"]]
                  /\ stack_pool' = [stack_pool EXCEPT !.in_use = @ + 1]
                  /\ pool_user' = [pool_user EXCEPT ![k] =
                        PoolIdle(pool_user[k].held \cup {q[Len(q)]},
                                 q[Len(q)])]
             ELSE /\ free_stacks' = [free_stacks EXCEPT ![c].owner = "free"]
                  /\ pool_user' = [pool_user EXCEPT ![k].pc = "alloc_new"]
                  /\ UNCHANGED stack_pool
    /\ UNCHANGED <<heap, poolFrame>>

\* allocate, last statement: self.allocate_new_stack(size_class)
PoolAllocNew(k) ==
    /\ pool_user[k].pc = "alloc_new"
    /\ \E a \in {allocate_new_stack(pool_user[k].class, stack_pool, heap)} :
          /\ stack_pool' = a.pool
          /\ heap' = a.heap
          /\ pool_user' = [pool_user EXCEPT ![k] =
                PoolIdle(IF a.stack = NoStack
                            THEN pool_user[k].held
                            ELSE pool_user[k].held \cup {a.stack},
                         a.stack)]
    /\ UNCHANGED <<free_stacks, poolFrame>>

\* deallocate(stack), first statement: try_lock(); when the lock is taken
\* by somebody else the call returns and the stack is dropped.
PoolDeallocate(k, s) ==
    /\ pool_user[k].pc = "idle"
    /\ s \in pool_user[k].held
    /\ IF free_stacks[s.class].owner = "free"
          THEN /\ free_stacks' = [free_stacks EXCEPT ![s.class].owner = k]
               /\ pool_user' = [pool_user EXCEPT
                     ![k].pc = "dealloc_locked",
                     ![k].class = s.class,
                     ![k].stack = s,
                     ![k].held = @ \ {s}]
               /\ UNCHANGED <<stack_pool, heap>>
          ELSE /\ pool_user' = [pool_user EXCEPT ![k].held = @ \ {s}]
               /\ \E d \in {drop_stack(stack_pool, heap)} :
                     /\ stack_pool' = d.pool
                     /\ heap' = d.heap
               /\ UNCHANGED free_stacks
    /\ UNCHANGED poolFrame

\* deallocate under the lock: free_list.push(stack), in_use -= 1
PoolDeallocPush(k) ==
    /\ pool_user[k].pc = "dealloc_locked"
    /\ LET c == pool_user[k].class
       IN free_stacks' = [free_stacks EXCEPT
             ![c] = [list |-> Append(free_stacks[c].list, pool_user[k].stack),
                     owner |-> "free"]]
    /\ stack_pool' = [stack_pool EXCEPT !.in_use = @ - 1]
    /\ pool_user' = [pool_user EXCEPT ![k] =
          PoolIdle(pool_user[k].held, pool_user[k].got)]
    /\ UNCHANGED <<heap, poolFrame>>

\* every stack the allocator can hand out
AllStacks == [id : 1..HeapStacks, class : PoolClasses]

PoolNext ==
    \/ \E k \in Callers, c \in PoolClasses : PoolAllocate(k, c)
    \/ \E k \in Callers : PoolAllocPop(k)
    \/ \E k \in Callers : PoolAllocNew(k)
    \/ \E k \in Callers, s \in AllStacks : PoolDeallocate(k, s)
    \/ \E k \in Callers : PoolDeallocPush(k)

PoolSpec == Init /\ [][PoolNext]_vars

\* the step in which caller k's deallocate(s) returns
DeallocateReturns(k, s) ==
    \/ PoolDeallocate(k, s) /\ pool_user'[k].pc = "idle"
    \/ PoolDeallocPush(k) /\ pool_user[k].stack = s

\* the step in which caller k's allocate returns fresh memory
AllocateReturnsFresh(k) ==
    /\ PoolAllocNew(k)
    /\ pool_user'[k].got # NoStack

\* C32: deallocate(stack) always leaves the stack on the free list of its
\* class, and an allocate of a class returns fresh memory only if no stack
\* that was free for the class when the call started is still free, also
\* while other allocate and deallocate calls are in progress.
C32_DeallocateThenReuse ==
    [][\A k \in Callers :
          /\ \A s \in AllStacks :
                DeallocateReturns(k, s)
                   => s \in ListSet(free_stacks'[s.class].list)
          /\ AllocateReturnsFresh(k)
                => pool_user[k].seen
                   \cap ListSet(free_stacks[pool_user[k].class].list) = {}
      ]_vars

\* ------------------------------------------- threads built by ThreadBuilder
BuilderNext ==
    \/ HeapAlloc
    \/ \E k \in Callers, cfg \in BuilderConfigs, uninit \in StackWords :
          BuilderSpawn(k, cfg, uninit)

BuilderSpec == Init /\ [][BuilderNext]_vars

\* Stack::check_canary(expected): reads the word at stack_top(), the lowest
\* address of the stack
check_canary(th, expected) == th.top = expected

\* Thread::check_stack_integrity: check_canary with the fixed sentinel
check_stack_integrity(th) == check_canary(th, Sentinel)

\* C33: a thread built with the canary enabled, whose stack has not
\* overflowed (nothing in this model writes below the stack pointer), has the
\* sentinel in the word at the stack top, so check_stack_integrity is true.
C33_CanaryIntact ==
    (built # NoBuilt /\ built.canary # "off") => check_stack_integrity(built)

\* C38: a thread built with stack_size(n), n accepted, has a stack of at
\* least n usable bytes from the smallest class that fits n.
C38_StackFitsRequest ==
    (built # NoBuilt /\ built.requested # -1)
       => /\ built.usable >= built.requested
          /\ built.class = for_size(built.requested)

\* ------------------------------------------------- the preemption timer
\* the counter CNTPCT_EL0 is followed up to this value
MaxCount == 3

\* what CNTFRQ_EL0 can read, in Hz: 0 on a board whose firmware left the
\* register unprogrammed
Frequencies == {0, 500000, 1000000}

\* the intervals callers pass, in microseconds
Intervals == {2, 1000}

timerFrame == <<kernelVars, num_cpus, schedVars, state, priority,
                join_result, context, irqVars, cpu, daifMasked, joinTarget,
                joinRet, sftDone, heldReady, finishing, tryJoinSeen, histVars,
                spawnVars, handle, poolVars, built, gic, lfq, slot_lock,
                arch>>

\* setup_preemption_timer without the check of the frequency
setup_preemption_timer_unchecked(tm, interval_us) ==
    [tm EXCEPT !.cval = tm.now + ((tm.freq * interval_us) \div 1000000),
               !.ctl = 1,
               !.ret = "Ok"]

\* setup_preemption_timer(interval_us): Err when TIMER_FREQ is 0, else
\* ticks = freq * interval / 1_000_000, CNTP_CVAL_EL0 = CNTPCT_EL0 + ticks
\* and CNTP_CTL_EL0 = 1. The values are 64 bits wide in the code; the ones
\* used here stay below 2^31.
setup_preemption_timer(tm, interval_us) ==
    IF tm.freq = 0
       THEN [tm EXCEPT !.ret = "Err"]
       ELSE [tm EXCEPT !.cval = tm.now + ((tm.freq * interval_us) \div 1000000),
                       !.ctl = 1,
                       !.ret = "Ok"]

\* arch::aarch64::init: TIMER_FREQ = CNTFRQ_EL0, CNTP_CTL_EL0 = 1
ArchInit(f) ==
    /\ timer.ret = "none"
    /\ timer.ctl = 0
    /\ timer' = [timer EXCEPT !.freq = f, !.ctl = 1]
    /\ UNCHANGED timerFrame

\* a caller arms the timer
SetupTimer(i) ==
    /\ timer' = setup_preemption_timer(timer, i)
    /\ UNCHANGED timerFrame

\* the timer part of timer_interrupt_handler: CNTP_CTL_EL0 = 2, then, after
\* the scheduler, let _ = setup_preemption_timer(1000)
TimerRearm ==
    /\ timer.ctl = 1
    /\ timer.now >= timer.cval
    /\ timer' = setup_preemption_timer([timer EXCEPT !.ctl = 2], 1000)
    /\ UNCHANGED timerFrame

\* CNTPCT_EL0 counts
CounterTick ==
    /\ timer.now < MaxCount
    /\ timer' = [timer EXCEPT !.now = @ + 1]
    /\ UNCHANGED timerFrame

TimerNext ==
    \/ \E f \in Frequencies : ArchInit(f)
    \/ \E i \in Intervals : SetupTimer(i)
    \/ TimerRearm
    \/ CounterTick

TimerSpec == Init /\ [][TimerNext]_vars

\* C35: arming the preemption timer while the timer frequency is 0 returns
\* an error and leaves the compare and control registers alone.
C35_ZeroFrequencyIsError ==
    [][\A i \in Intervals :
          (SetupTimer(i) /\ timer.freq = 0)
             => /\ timer'.ret = "Err"
                /\ timer'.cval = timer.cval
                /\ timer'.ctl = timer.ctl]_vars

\* a call with frequency 0 has returned the error
C35_Witness ==
    /\ timer.freq = 0
    /\ timer.ret = "Err"
    /\ timer.cval = 0

\* ------------------------------------------------------------ irq_handler
\* GIC interrupt ids (aarch64_gic.rs)
TIMER_IRQ == 30
VTIMER_IRQ == 27
SPURIOUS_IRQ == 1023

\* values Gic400::acknowledge_interrupt() can return
IrqNumbers == {TIMER_IRQ, VTIMER_IRQ, SPURIOUS_IRQ}

\* irq_handler with the end of interrupt written before the handler runs
\* and for the spurious id too
irq_handler_eoi_first(irq) ==
    <<[op |-> "end_interrupt", irq |-> irq]>>
    \o (IF irq = TIMER_IRQ
           THEN <<[op |-> "timer_interrupt_handler", irq |-> irq]>>
           ELSE <<>>)

\* irq_handler: what it calls, in order, for the acknowledged id:
\*   if irq == SPURIOUS_IRQ { return; }
\*   match irq { TIMER_IRQ => timer_interrupt_handler(), _ => {} }
\*   Gic400::end_interrupt(irq);
irq_handler(irq) ==
    IF irq = SPURIOUS_IRQ
       THEN <<>>
       ELSE (IF irq = TIMER_IRQ
                THEN <<[op |-> "timer_interrupt_handler", irq |-> irq]>>
                ELSE <<>>)
            \o <<[op |-> "end_interrupt", irq |-> irq]>>

\* One IRQ with the id the GIC reports: the vector's prologue, irq_handler
\* and the epilogue; timer_interrupt_handler is the call that reaches
\* handle_irq_preemption.
GicIrq(irq) ==
    /\ \E ev \in {irq_handler(irq)} :
          /\ IrqTaken(IF \E i \in DOMAIN ev : ev[i].op = "timer_interrupt_handler"
                         THEN "timer"
                         ELSE IF irq = SPURIOUS_IRQ THEN "spurious" ELSE "other")
          /\ gic' = [iar |-> irq, events |-> ev]
    /\ UNCHANGED <<initialized, next_thread_id, num_cpus, priority,
                   join_result, joinTarget, joinRet, sftDone, heldReady,
                   finishing, tryJoinSeen, histVars, spawnVars, handle,
                   poolVars, built, timer, lfq, slot_lock, arch>>

\* The kernel with every IRQ carrying its GIC id.
GicNext ==
    \/ KernelInit
    \/ BootEnableInterrupts
    \/ \E p \in Priorities : Spawn(p, NoThread)
    \/ StartFirstPick
    \/ StartFirstSetIrq
    \/ StartFirstSwitch
    \/ \E irq \in IrqNumbers : GicIrq(irq)
    \/ TrampolineEnter
    \/ YieldNow
    \/ YieldSwitch
    \/ EntryReturn

GicSpec == Init /\ [][GicNext]_vars

EoiCount(ev) == Cardinality({i \in DOMAIN ev : ev[i].op = "end_interrupt"})

\* C34: for every IRQ taken, a spurious id (1023) gets no end of interrupt
\* and no scheduling; any other id gets exactly one end of interrupt, for
\* that id, written after its handler has run.
C34_EoiOncePerRealIrq ==
    [][\A irq \in IrqNumbers :
          GicIrq(irq) =>
             IF irq = SPURIOUS_IRQ
                THEN /\ EoiCount(gic'.events) = 0
                     /\ UNCHANGED <<schedVars, current_thread, state, irqVars>>
                ELSE /\ EoiCount(gic'.events) = 1
                     /\ gic'.events[Len(gic'.events)]
                           = [op |-> "end_interrupt", irq |-> irq]]_vars

\* a timer IRQ that ran its handler, wrote its end of interrupt and resumed
\* a thread
C34_Witness ==
    /\ gic.iar = TIMER_IRQ
    /\ gic.events = <<[op |-> "timer_interrupt_handler", irq |-> TIMER_IRQ],
                      [op |-> "end_interrupt", irq |-> TIMER_IRQ]>>
    /\ current_thread # NoThread
    /\ cpu.pc # "hung"

\* ---------------------------------------------------------- LockFreeQueue
\* push and try_pop step by step: every load, store and compare-exchange of
\* head, tail or a node is one step of the calling context, so that the
\* calls of different contexts interleave as on real hardware. A spurious
\* failure of compare_exchange_weak in a retry loop only repeats the loop
\* and is left out.
queueFrame == <<kernelVars, num_cpus, schedVars, state, priority,
                join_result, context, irqVars, cpu, daifMasked, joinTarget,
                joinRet, sftDone, heldReady, finishing, tryJoinSeen, histVars,
                spawnVars, handle, poolVars, built, timer, gic, slot_lock,
                arch>>

\* what a load from node n can yield: the field, or, when the node was
\* freed by drop(Box::from_raw(head)), also the null a reused allocation
\* would hold
Deref(n, val) == IF n \in lfq.freed THEN {val, 0} ELSE {val}

\* let new_node = Box::into_raw(Box::new(QueueNode { thread: Some(thread), .. }))
Push(k) ==
    /\ lfq.proc[k].pc = "idle"
    /\ lfq.nalloc <= MaxPush
    /\ \E n \in {lfq.nalloc + 1} :
          lfq' = [lfq EXCEPT !.nalloc = n,
                             !.node[n] = [thread |-> n - 1, next |-> 0],
                             !.proc[k] = [QIdle EXCEPT !.pc = "push_tail",
                                                       !.node = n,
                                                       !.thread = n - 1]]
    /\ UNCHANGED queueFrame

\* let tail = self.tail.load(Acquire);
PushLoadTail(k) ==
    /\ lfq.proc[k].pc = "push_tail"
    /\ lfq' = [lfq EXCEPT !.proc[k].tail = lfq.tail,
                          !.proc[k].pc = "push_next"]
    /\ UNCHANGED queueFrame

\* let next = (*tail).next.load(Acquire);
PushLoadNext(k) ==
    /\ lfq.proc[k].pc = "push_next"
    /\ \E v \in Deref(lfq.proc[k].tail, lfq.node[lfq.proc[k].tail].next) :
          lfq' = [lfq EXCEPT !.proc[k].next = v,
                             !.proc[k].pc = "push_check"]
    /\ UNCHANGED queueFrame

\* if tail == self.tail.load(Acquire) { if next.is_null() {..} else {..} }
PushCheck(k) ==
    /\ lfq.proc[k].pc = "push_check"
    /\ lfq' = [lfq EXCEPT !.proc[k].pc =
                  IF lfq.proc[k].tail # lfq.tail THEN "push_tail"
                  ELSE IF lfq.proc[k].next = 0 THEN "push_link"
                  ELSE "push_help"]
    /\ UNCHANGED queueFrame

\* (*tail).next.compare_exchange_weak(null, new_node): break on success
PushLink(k) ==
    /\ lfq.proc[k].pc = "push_link"
    /\ \E t \in {lfq.proc[k].tail} :
          lfq' = IF lfq.node[t].next = 0
                    THEN [lfq EXCEPT !.node[t].next = lfq.proc[k].node,
                                     !.proc[k].pc = "push_swing_load"]
                    ELSE [lfq EXCEPT !.proc[k].pc = "push_tail"]
    /\ UNCHANGED queueFrame

\* self.tail.compare_exchange_weak(tail, next): help a lagging tail
PushHelp(k) ==
    /\ lfq.proc[k].pc = "push_help"
    /\ lfq' = [lfq EXCEPT !.tail = IF lfq.tail = lfq.proc[k].tail
                                      THEN lfq.proc[k].next ELSE @,
                          !.proc[k].pc = "push_tail"]
    /\ UNCHANGED queueFrame

\* the argument self.tail.load(Acquire) of the last compare-exchange
PushSwingLoad(k) ==
    /\ lfq.proc[k].pc = "push_swing_load"
    /\ lfq' = [lfq EXCEPT !.proc[k].tail = lfq.tail,
                          !.proc[k].pc = "push_swing"]
    /\ UNCHANGED queueFrame

\* self.tail.compare_exchange_weak(<loaded tail>, new_node); push returns
PushSwing(k) ==
    /\ lfq.proc[k].pc = "push_swing"
    /\ lfq' = [lfq EXCEPT !.tail = IF lfq.tail = lfq.proc[k].tail
                                      THEN lfq.proc[k].node ELSE @,
                          !.pushed = @ \cup {lfq.proc[k].thread},
                          !.proc[k] = QIdle]
    /\ UNCHANGED queueFrame

\* try_pop is called; seen is what completed pushes had put into the queue
\* and no try_pop had returned when the call started
TryPop(k) ==
    /\ lfq.proc[k].pc = "idle"
    /\ lfq.pops < MaxPops
    /\ lfq' = [lfq EXCEPT !.pops = @ + 1,
                  !.proc[k] = [QIdle EXCEPT !.pc = "pop_head",
                     !.seen = lfq.pushed \
                        {lfq.returned[i].val : i \in DOMAIN lfq.returned}]]
    /\ UNCHANGED queueFrame

\* let head = self.head.load(Acquire);
PopLoadHead(k) ==
    /\ lfq.proc[k].pc = "pop_head"
    /\ lfq' = [lfq EXCEPT !.proc[k].head = lfq.head,
                          !.proc[k].pc = "pop_tail"]
    /\ UNCHANGED queueFrame

\* let tail = self.tail.load(Acquire);
PopLoadTail(k) ==
    /\ lfq.proc[k].pc = "pop_tail"
    /\ lfq' = [lfq EXCEPT !.proc[k].tail = lfq.tail,
                          !.proc[k].pc = "pop_next"]
    /\ UNCHANGED queueFrame

\* let next = (*head).next.load(Acquire);
PopLoadNext(k) ==
    /\ lfq.proc[k].pc = "pop_next"
    /\ \E v \in Deref(lfq.proc[k].head, lfq.node[lfq.proc[k].head].next) :
          lfq' = [lfq EXCEPT !.proc[k].next = v,
                             !.proc[k].pc = "pop_check"]
    /\ UNCHANGED queueFrame

\* if head == self.head.load(Acquire) { if head == tail { if next.is_null()
\* { return None; } .. } else { if next.is_null() { continue; } .. } }
PopCheck(k) ==
    /\ lfq.proc[k].pc = "pop_check"
    /\ \E me \in {lfq.proc[k]} :
          lfq' = IF me.head # lfq.head
                    THEN [lfq EXCEPT !.proc[k].pc = "pop_head"]
                 ELSE IF me.head = me.tail /\ me.next = 0
                    THEN [lfq EXCEPT
                            !.returned = Append(@, [by |-> k, val |-> 0,
                                                    seen |-> me.seen]),
                            !.proc[k] = QIdle]
                 ELSE IF me.head = me.tail
                    THEN [lfq EXCEPT !.proc[k].pc = "pop_help"]
                 ELSE IF me.next = 0
                    THEN [lfq EXCEPT !.proc[k].pc = "pop_head"]
                 ELSE [lfq EXCEPT !.proc[k].pc = "pop_take"]
    /\ UNCHANGED queueFrame

\* self.tail.compare_exchange_weak(tail, next): help a lagging tail
PopHelp(k) ==
    /\ lfq.proc[k].pc = "pop_help"
    /\ lfq' = [lfq EXCEPT !.tail = IF lfq.tail = lfq.proc[k].tail
                                      THEN lfq.proc[k].next ELSE @,
                          !.proc[k].pc = "pop_head"]
    /\ UNCHANGED queueFrame

\* let thread = (*next).thread.take();
PopTake(k) ==
    /\ lfq.proc[k].pc = "pop_take"
    /\ \E n \in {lfq.proc[k].next} :
       \E v \in Deref(n, lfq.node[n].thread) :
          lfq' = [lfq EXCEPT !.node[n].thread = 0,
                             !.proc[k].thread = v,
                             !.proc[k].pc = "pop_cas"]
    /\ UNCHANGED queueFrame

\* if self.head.compare_exchange_weak(head, next).is_ok()
\*    { drop(Box::from_raw(head)); return thread; }
PopCas(k) ==
    /\ lfq.proc[k].pc = "pop_cas"
    /\ \E me \in {lfq.proc[k]} :
          lfq' = IF lfq.head = me.head
                    THEN [lfq EXCEPT
                            !.head = me.next,
                            !.freed = @ \cup {me.head},
                            !.returned = Append(@, [by |-> k, val |-> me.thread,
                                                    seen |-> me.seen]),
                            !.proc[k] = QIdle]
                    ELSE [lfq EXCEPT !.proc[k].pc = "pop_putback"]
    /\ UNCHANGED queueFrame

\* else { if let Some(t) = thread { (*next).thread = Some(t); } } and retry
PopPutBack(k) ==
    /\ lfq.proc[k].pc = "pop_putback"
    /\ \E me \in {lfq.proc[k]} :
          lfq' = [lfq EXCEPT
                    !.node[me.next].thread = IF me.thread # 0 THEN me.thread ELSE @,
                    !.proc[k].thread = 0,
                    !.proc[k].pc = "pop_head"]
    /\ UNCHANGED queueFrame

QueueNext ==
    \/ \E k \in QProcs : Push(k)
    \/ \E k \in QProcs : PushLoadTail(k)
    \/ \E k \in QProcs : PushLoadNext(k)
    \/ \E k \in QProcs : PushCheck(k)
    \/ \E k \in QProcs : PushLink(k)
    \/ \E k \in QProcs : PushHelp(k)
    \/ \E k \in QProcs : PushSwingLoad(k)
    \/ \E k \in QProcs : PushSwing(k)
    \/ \E k \in QProcs : TryPop(k)
    \/ \E k \in QProcs : PopLoadHead(k)
    \/ \E k \in QProcs : PopLoadTail(k)
    \/ \E k \in QProcs : PopLoadNext(k)
    \/ \E k \in QProcs : PopCheck(k)
    \/ \E k \in QProcs : PopHelp(k)
    \/ \E k \in QProcs : PopTake(k)
    \/ \E k \in QProcs : PopCas(k)
    \/ \E k \in QProcs : PopPutBack(k)

QueueSpec == Init /\ [][QueueNext]_vars

\* the threads try_pop has returned, and how often each was returned
ReturnedThreads == {lfq.returned[i].val : i \in DOMAIN lfq.returned} \ {0}
TimesReturned(t) ==
    Cardinality({i \in DOMAIN lfq.returned : lfq.returned[i].val = t})

\* the nodes linked behind the head
RECURSIVE Chain(_, _)
Chain(n, fuel) ==
    IF n = 0 \/ fuel = 0 THEN {} ELSE {n} \cup Chain(lfq.node[n].next, fuel - 1)
Queued ==
    {lfq.node[n].thread : n \in Chain(lfq.node[lfq.head].next, MaxPush + 1)} \ {0}

QueueIdle == \A k \in QProcs : lfq.proc[k].pc = "idle"

\* C36: under any interleaving of push and try_pop on one queue, every
\* pushed thread is returned by exactly one try_pop (never twice, and never
\* lost: with no call in progress a pushed thread has been returned or is
\* still queued), and a try_pop returns None only if everything that
\* completed pushes had queued when it started has been returned.
C36_QueueLinearizable ==
    /\ \A t \in 1 .. MaxPush : TimesReturned(t) <= 1
    /\ QueueIdle => lfq.pushed \subseteq (ReturnedThreads \cup Queued)
    /\ \A i \in DOMAIN lfq.returned :
          lfq.returned[i].val = 0 =>
             lfq.returned[i].seen \subseteq
                {lfq.returned[j].val : j \in 1 .. (i - 1)}

\* ------------------------------------------------- the current-thread lock
\* yield_now, start_first_thread and handle_irq_preemption with the SpinLock
\* of Kernel::current_thread made visible: taking the lock, the decision
\* under the lock, and each arch-layer call are steps of their own.
lockFrame == <<initialized, next_thread_id, num_cpus, priority, join_result,
               joinTarget, joinRet, sftDone, heldReady, finishing,
               tryJoinSeen, histVars, spawnVars, handle, notLockVars>>

InYieldNow == {"yn_lock", "yn_decide", "yn_enable", "yn_unlock", "yield_cs"}

\* a yield_now that keeps current_guard to the end of its scope on every
\* path
guard_after_decision_kept(had_current, next) == "yield_now"

\* who holds the lock when yield_now reaches A::enable_interrupts():
\* drop(current_guard) has run when the slot was empty (kernel.rs:280) and
\* when a thread was picked (kernel.rs:260); on the path where pick_next
\* returned None the guard lives to the end of the function.
guard_after_decision(had_current, next) ==
    IF ~had_current \/ next # NoThread THEN "free" ELSE "yield_now"

\* let mut current_guard = match self.current_thread.try_lock() {
\*     Some(guard) => guard, None => return };
irq_acquire(owner) == IF owner = "free" THEN "acquired" ELSE "contended"

\* yield_now is called by a thread body: is_initialized(), then
\* A::disable_interrupts()
LockYieldCall ==
    /\ OnThread("body")
    /\ IF ~initialized
          THEN UNCHANGED <<cpu, daifMasked, slot_lock>>
          ELSE /\ Run([cpu EXCEPT !.pc = "yn_lock", !.ret = "body",
                                  !.prev = 0, !.next = 0])
               /\ daifMasked' = TRUE
               /\ slot_lock' = [slot_lock EXCEPT !.yielding = @ \cup {cpu.owner}]
    /\ UNCHANGED <<current_thread, schedVars, state, context, irqVars,
                   lockFrame>>

\* let mut current_guard = self.current_thread.lock(): spins until free
LockYieldAcquire ==
    /\ cpu.pc = "yn_lock"
    /\ slot_lock.owner = "free"
    /\ slot_lock' = [slot_lock EXCEPT !.owner = "yield_now"]
    /\ Run([cpu EXCEPT !.pc = "yn_decide"])
    /\ UNCHANGED <<current_thread, schedVars, state, context, irqVars,
                   daifMasked, lockFrame>>

\* the body of yield_now under the lock, up to A::enable_interrupts()
LockYieldDecide ==
    /\ cpu.pc = "yn_decide"
    /\ IF current_thread = NoThread
          THEN /\ slot_lock' = [slot_lock EXCEPT
                                  !.owner = guard_after_decision(FALSE, NoThread)]
               /\ Run([cpu EXCEPT !.pc = "yn_enable"])
               /\ UNCHANGED <<current_thread, schedVars, state>>
          ELSE \E d \in {Reschedule} :
                  /\ SetSched(d.S)
                  /\ state' = d.st
                  /\ current_thread' = d.next
                  /\ slot_lock' = [slot_lock EXCEPT
                                     !.owner = guard_after_decision(TRUE, d.next)]
                  /\ Run(CpuRegs(cpu.owner, "yn_enable", cpu.ret, d.prev,
                                 d.next))
    /\ UNCHANGED <<context, irqVars, daifMasked, lockFrame>>

\* yield_now from A::enable_interrupts() on: the call (pc yn_enable), then
\* the context switch when a thread was picked, the end of the function when
\* the guard is gone, and otherwise the end of the guard's scope (pc
\* yn_unlock), where the guard is dropped and the function returns
LockYieldEnable ==
    /\ cpu.pc \in {"yn_enable", "yn_unlock"}
    /\ IF cpu.pc = "yn_unlock"
          THEN /\ Run([cpu EXCEPT !.pc = cpu.ret])
               /\ slot_lock' = [owner |-> "free",
                                yielding |-> slot_lock.yielding \ {cpu.owner}]
               /\ UNCHANGED daifMasked
       ELSE IF cpu.next # NoThread
          THEN /\ Run([cpu EXCEPT !.pc = "yield_cs"])
               /\ daifMasked' = FALSE
               /\ UNCHANGED slot_lock
       ELSE IF slot_lock.owner = "free"
          THEN /\ Run([cpu EXCEPT !.pc = cpu.ret])
               /\ daifMasked' = FALSE
               /\ slot_lock' = [slot_lock EXCEPT !.yielding = @ \ {cpu.owner}]
          ELSE /\ Run([cpu EXCEPT !.pc = "yn_unlock"])
               /\ daifMasked' = FALSE
               /\ UNCHANGED slot_lock
    /\ UNCHANGED <<current_thread, schedVars, state, context, irqVars,
                   lockFrame>>

\* A::context_switch(prev_ctx, next_ctx) of yield_now
LockYieldSwitch ==
    /\ cpu.pc = "yield_cs"
    /\ LET r == context_switch(context, cpu.prev, cpu.next)
       IN /\ context' = r.ctx
          /\ Run(r.cpu)
    /\ slot_lock' = [slot_lock EXCEPT !.yielding = @ \ {cpu.owner}]
    /\ UNCHANGED <<current_thread, schedVars, state, irqVars, daifMasked,
                   lockFrame>>

\* start_first_thread: is_initialized(), then self.current_thread.lock()
LockStartFirstAcquire ==
    /\ OnBoot("boot")
    /\ initialized
    /\ slot_lock.owner = "free"
    /\ slot_lock' = [slot_lock EXCEPT !.owner = "start_first_thread"]
    /\ Run([cpu EXCEPT !.pc = "sft_lock"])
    /\ UNCHANGED <<current_thread, schedVars, state, context, irqVars,
                   daifMasked, lockFrame>>

\* start_first_thread under the lock: return when the slot is occupied or
\* nothing is ready (the guard ends with the function), else publish the
\* picked thread and drop(current_guard)
LockStartFirstDecide ==
    /\ OnBoot("sft_lock")
    /\ \E r \in {pick_next(Sched, 0)} :
          IF current_thread # NoThread \/ r.t = NoThread
             THEN /\ Run([cpu EXCEPT !.pc = "boot_done"])
                  /\ UNCHANGED <<current_thread, schedVars, state>>
             ELSE /\ SetSched(r.S)
                  /\ state' = start_running(state, r.t)
                  /\ current_thread' = r.t
                  /\ Run([cpu EXCEPT !.pc = "sft_set", !.next = r.t])
    /\ slot_lock' = [slot_lock EXCEPT !.owner = "free"]
    /\ UNCHANGED <<context, irqVars, daifMasked, lockFrame>>

\* One IRQ. handle_irq_preemption returns at once when try_lock finds the
\* lock taken, and the IRQ then ends like one that is not the timer's.
LockIrq(kind) ==
    /\ \E a \in {irq_acquire(slot_lock.owner)} :
          IrqTaken(IF kind = "timer" /\ initialized /\ a = "contended"
                      THEN "other" ELSE kind)
    /\ UNCHANGED <<slot_lock, lockFrame>>

LockNext ==
    \/ KernelInit
    \/ BootEnableInterrupts
    \/ \E p \in Priorities : Spawn(p, NoThread)
    \/ LockStartFirstAcquire
    \/ LockStartFirstDecide
    \/ StartFirstSetIrq
    \/ StartFirstSwitch
    \/ \E kind \in IrqKinds : LockIrq(kind)
    \/ TrampolineEnter
    \/ LockYieldCall
    \/ LockYieldAcquire
    \/ LockYieldDecide
    \/ LockYieldEnable
    \/ LockYieldSwitch
    \/ EntryReturn

LockSpec == Init /\ [][LockNext]_vars

\* C37: the lock of the current-thread slot is never held while an
\* arch-layer operation (disable_interrupts, enable_interrupts,
\* context_switch) is called from yield_now or start_first_thread: it has
\* been released before IRQs are unmasked and before the switch is issued.
C37_NoArchCallUnderLock ==
    [][(LockYieldCall \/ (LockYieldEnable /\ cpu.pc = "yn_enable")
           \/ LockYieldSwitch \/ StartFirstSetIrq \/ StartFirstSwitch)
          => slot_lock.owner = "free"]_vars

\* yield_now has taken and released the lock and is about to switch
C37_Witness ==
    /\ cpu.pc = "yield_cs"
    /\ cpu.owner \in slot_lock.yielding
    /\ current_thread = cpu.next
    /\ slot_lock.owner = "free"

\* The CPU executes the code it is in: the steps of yield_now and of
\* start_first_thread that follow a call, and the trampoline.
LockProgress ==
    \/ LockYieldAcquire
    \/ LockYieldDecide
    \/ LockYieldEnable
    \/ LockStartFirstDecide
    \/ StartFirstSetIrq
    \/ StartFirstSwitch
    \/ TrampolineEnter

\* The code runs when it is on the CPU, the timer keeps firing while IRQs
\* are unmasked, and the few instructions between enable_interrupts and
\* context_switch are not preempted every time they are reached (the timer
\* period is 1 ms).
LockFairSpec ==
    LockSpec /\ WF_vars(LockProgress) /\ WF_vars(LockIrq("timer"))
             /\ SF_vars(LockYieldSwitch)

\* C39: no interleaving of yield_now, start_first_thread and timer IRQs
\* deadlocks on the slot lock: an IRQ taken while the interrupted code holds
\* the lock does not wait for it (the handler leaves the slot, the queues
\* and the lock as they are and returns), and every call of yield_now
\* eventually returns or performs its switch to another thread.
C39_NoDeadlockOnSlotLock ==
    /\ [][\A kind \in IrqKinds :
            (LockIrq(kind) /\ slot_lock.owner # "free")
               => UNCHANGED <<slot_lock, current_thread, schedVars, state>>]_vars
    /\ \A t \in ThreadIds :
          (t \in slot_lock.yielding) ~> (t \notin slot_lock.yielding)

\* ------------------------------------------- the two context switch paths
\* One thread's registers across a suspension: saved by context_switch or
\* by the prologue of irq_el1h, the CPU then runs other code, and the
\* thread is resumed by context_switch or by the epilogue's eret.
archFrame == <<kernelVars, num_cpus, schedVars, state, priority, join_result,
               context, irqVars, cpu, daifMasked, joinTarget, joinRet,
               sftDone, heldReady, finishing, tryJoinSeen, histVars,
               spawnVars, handle, poolVars, built, timer, gic, lfq,
               slot_lock>>

\* register contents of code running in the kernel: EL1h, IRQs unmasked (a
\* thread can be interrupted, and yield_now unmasks before it switches)
RunningRegs ==
    {ArchRegs(x, x30, sp, pc, nzcv, FALSE, "EL1h") :
        x \in {"a", "b"}, x30 \in {"lr1", "lr2"}, sp \in {"sp_t"},
        pc \in {"body", "loop"}, nzcv \in {0, 1}}

\* the save half of context_switch: x0-x30 and sp as they are, pc = the
\* label after the switch (adr x15, 1f), pstate = mrs nzcv: the flags only,
\* every other bit of the saved word is zero (I clear, M = 0b0000 = EL0t)
switch_save(r) ==
    [x |-> r.x, x30 |-> r.x30, sp |-> r.sp, pc |-> "after_switch",
     pstate |-> [nzcv |-> r.nzcv, I |-> FALSE, M |-> "EL0t"]]

\* the load half of context_switch: sp, msr nzcv from the pstate word, x30 =
\* the saved pc, x0-x29, then ret; the saved x30 (offset 240) is not loaded
\* and PSTATE.I and the exception level stay what the CPU has
switch_load(r, f) ==
    [x |-> f.x, x30 |-> f.pc, sp |-> f.sp, pc |-> f.pc,
     nzcv |-> f.pstate.nzcv, imask |-> r.imask, el |-> r.el]

\* the prologue of irq_el1h: x0-x30, the pre-stash sp, pc = ELR_EL1 and
\* pstate = SPSR_EL1 (flags, I and M of the interrupted code)
irq_save(r) ==
    [x |-> r.x, x30 |-> r.x30, sp |-> r.sp, pc |-> r.pc,
     pstate |-> [nzcv |-> r.nzcv, I |-> r.imask, M |-> r.el]]

\* the epilogue of irq_el1h: SPSR_EL1 and ELR_EL1 from pstate and pc, sp,
\* x0-x30, then eret, which sets PSTATE from SPSR_EL1
irq_load(f) ==
    [x |-> f.x, x30 |-> f.x30, sp |-> f.sp, pc |-> f.pc,
     nzcv |-> f.pstate.nzcv, imask |-> f.pstate.I, el |-> f.pstate.M]

\* the thread computes
ThreadRuns ==
    /\ arch.on_cpu
    /\ \E r \in RunningRegs :
          arch' = [arch EXCEPT !.cpu = r, !.susp = r, !.saved_by = "none",
                               !.resumed_by = "none"]
    /\ UNCHANGED archFrame

\* the thread calls yield_now, whose context_switch saves it and enters
\* another thread; it expects to continue after the call
SuspendBySwitch ==
    /\ arch.on_cpu
    /\ \E other \in RunningRegs :
          arch' = [cpu |-> other, on_cpu |-> FALSE,
                   frame |-> switch_save(arch.cpu),
                   susp |-> [arch.cpu EXCEPT !.pc = "after_switch"],
                   saved_by |-> "context_switch", resumed_by |-> "none"]
    /\ UNCHANGED archFrame

\* an IRQ preempts the thread: the prologue saves it and the epilogue
\* enters another thread
SuspendByIrq ==
    /\ arch.on_cpu
    /\ ~arch.cpu.imask
    /\ \E other \in RunningRegs :
          arch' = [cpu |-> other, on_cpu |-> FALSE,
                   frame |-> irq_save(arch.cpu),
                   susp |-> arch.cpu,
                   saved_by |-> "irq", resumed_by |-> "none"]
    /\ UNCHANGED archFrame

\* the thread is picked by another thread's yield_now
ResumeBySwitch ==
    /\ ~arch.on_cpu
    /\ arch' = [arch EXCEPT !.cpu = switch_load(arch.cpu, arch.frame),
                            !.on_cpu = TRUE,
                            !.resumed_by = "context_switch"]
    /\ UNCHANGED archFrame

\* the thread is picked by handle_irq_preemption
ResumeByEret ==
    /\ ~arch.on_cpu
    /\ ~arch.cpu.imask
    /\ arch' = [arch EXCEPT !.cpu = irq_load(arch.frame),
                            !.on_cpu = TRUE,
                            !.resumed_by = "irq"]
    /\ UNCHANGED archFrame

SwitchNext ==
    \/ ThreadRuns
    \/ SuspendBySwitch
    \/ SuspendByIrq
    \/ ResumeBySwitch
    \/ ResumeByEret

SwitchSpec == Init /\ [][SwitchNext]_vars

\* C40: a context saved by one switch path and resumed by the other (saved
\* by context_switch and resumed by the IRQ epilogue's eret, or saved by
\* the IRQ prologue and resumed by context_switch) continues at its
\* suspension point with its registers, its exception level and its
\* interrupt mask as they were.
C40_CrossPathResume ==
    (arch.on_cpu /\ arch.resumed_by # "none"
        /\ arch.resumed_by # arch.saved_by)
       => arch.cpu = arch.susp

====
